---- MODULE Spec2Model ----
(***************************************************************************)
(* A model of the dynamic router of oarkflow/router: the path matcher      *)
(* utils.MatchRoute, the per-method route table with its mutation API, and *)
(* the middleware chain that dispatch and Route.Serve run through Next.    *)
(*                                                                         *)
(* Strings are sequences of one-character strings, so that the matcher's   *)
(* byte cursors can index them; cursors are 0-based as in the Go code.     *)
(***************************************************************************)
EXTENDS Integers, Sequences, FiniteSets, TLC

VARIABLES
    match,   \* one run of utils.MatchRoute: cursors, params and result
    routes,  \* Router.routes: method -> methodRoutes (exact map, params list)
    last,    \* the last Router call: its arguments, and whether it found its route
    nops,    \* number of Router calls made so far
    GlobalMiddlewares,  \* Router.GlobalMiddlewares
    req,     \* one request in dispatch: its Locals, call stack and handler log
    groups,  \* the Group objects made so far, in order of creation
    staticRoutes,    \* Router.staticRoutes, in order of registration
    NotFoundHandler, \* Router.NotFoundHandler
    heap,    \* for concurrent callers: the methodRoutes objects by address, and
             \* Router.routes as a map from method to address
    threads  \* the concurrent callers: each one's call and position in it

vars == <<match, routes, last, nops, GlobalMiddlewares, req, groups, staticRoutes,
          NotFoundHandler, heap, threads>>

\* The nil handler: New leaves Router.NotFoundHandler unset.
NilHandler == "nil"

-----------------------------------------------------------------------------
(* Bounds of the matcher's inputs. *)

MaxPatLen == 4

MaxPathLen == 4

PatternChars == {"/", ":", "*", "a"}

PathChars == {"/", "a", "b"}

StringsUpTo(chars, n) == UNION {[1..k -> chars] : k \in 0..n}

-----------------------------------------------------------------------------
(* Go string primitives, on 0-based indices. *)

\* s[i]
At(s, i) == s[i + 1]

\* s[a:b]
Slice(s, a, b) == SubSeq(s, a + 1, b)

\* params[k] = v on a Go map
MapPut(f, k, v) == [x \in (DOMAIN f) \cup {k} |-> IF x = k THEN v ELSE f[x]]

EmptyMap == [x \in {} |-> <<>>]

-----------------------------------------------------------------------------
(* utils.MatchRoute *)

RECURSIVE skipSlash(_, _)
skipSlash(s, i) ==
    IF i < Len(s) /\ At(s, i) = "/" THEN skipSlash(s, i + 1) ELSE i

\* A scan that stays where it is.
scanSegmentStay(s, i) == i

\* for i < len(s) && s[i] != '/' { i++ }
RECURSIVE scanSegment(_, _)
scanSegment(s, i) ==
    IF i < Len(s) /\ At(s, i) # "/" THEN scanSegment(s, i + 1) ELSE i

\* case ':'
ParamCase(pattern, path, pi, ti, params) ==
    LET startName == pi + 1
        pi2 == scanSegment(pattern, pi)
        paramName == Slice(pattern, startName, pi2)
        startVal == ti
        ti2 == scanSegment(path, ti)
        paramVal == Slice(path, startVal, ti2)
    IN [fail |-> FALSE, pi |-> pi2, ti |-> ti2,
        params |-> MapPut(params, paramName, paramVal)]

\* case '*'
\* A wildcard that binds only up to the next slash of the path.
WildcardCaseOneSegment(pattern, path, pi, ti, params) ==
    LET pi1 == pi + 1
        pi2 == IF pi1 < Len(pattern) /\ At(pattern, pi1) = "/" THEN pi1 + 1 ELSE pi1
        paramName == Slice(pattern, pi2, Len(pattern))
        paramVal == Slice(path, ti, scanSegment(path, ti))
    IN [fail |-> FALSE, pi |-> Len(pattern), ti |-> Len(path),
        params |-> MapPut(params, paramName, paramVal)]

WildcardCase(pattern, path, pi, ti, params) ==
    LET pi1 == pi + 1
        pi2 == IF pi1 < Len(pattern) /\ At(pattern, pi1) = "/" THEN pi1 + 1 ELSE pi1
        paramName == Slice(pattern, pi2, Len(pattern))
        paramVal == Slice(path, ti, Len(path))
    IN [fail |-> FALSE, pi |-> Len(pattern), ti |-> Len(path),
        params |-> MapPut(params, paramName, paramVal)]

\* default: the literal comparison loop
RECURSIVE LiteralCase(_, _, _, _, _)
LiteralCase(pattern, path, pi, ti, params) ==
    IF pi < Len(pattern) /\ ti < Len(path)
       /\ At(pattern, pi) # "/" /\ At(path, ti) # "/"
    THEN IF At(pattern, pi) # At(path, ti)
         THEN [fail |-> TRUE, pi |-> pi, ti |-> ti, params |-> params]
         ELSE LiteralCase(pattern, path, pi + 1, ti + 1, params)
    ELSE [fail |-> FALSE, pi |-> pi, ti |-> ti, params |-> params]

\* One iteration of the main loop: the switch, then both skipSlash calls.
LoopBody(pattern, path, pi, ti, params) ==
    LET r == CASE At(pattern, pi) = ":" -> ParamCase(pattern, path, pi, ti, params)
               [] At(pattern, pi) = "*" -> WildcardCase(pattern, path, pi, ti, params)
               [] OTHER -> LiteralCase(pattern, path, pi, ti, params)
    IN IF r.fail THEN r
       ELSE [r EXCEPT !.pi = skipSlash(pattern, r.pi), !.ti = skipSlash(path, r.ti)]

LoopCond(pattern, path, pi, ti) == pi < Len(pattern) /\ ti < Len(path)

\* (false, nil)
NoMatch == [matched |-> FALSE, nilParams |-> TRUE, params |-> EmptyMap]

\* if pi == pLen && ti == tLen { return true, params }; return false, nil
Terminal(pattern, path, pi, ti, params) ==
    IF pi = Len(pattern) /\ ti = Len(path)
    THEN [matched |-> TRUE, nilParams |-> FALSE, params |-> params]
    ELSE NoMatch

RECURSIVE MatchLoop(_, _, _, _, _)
MatchLoop(pattern, path, pi, ti, params) ==
    IF LoopCond(pattern, path, pi, ti)
    THEN LET r == LoopBody(pattern, path, pi, ti, params)
         IN IF r.fail THEN NoMatch
            ELSE MatchLoop(pattern, path, r.pi, r.ti, r.params)
    ELSE Terminal(pattern, path, pi, ti, params)

MatchRoute(pattern, path) ==
    MatchLoop(pattern, path, skipSlash(pattern, 0), skipSlash(path, 0), EmptyMap)

-----------------------------------------------------------------------------
(* The matcher run one loop iteration at a time. *)

MatchIdle ==
    [pc |-> "idle", pattern |-> <<>>, path |-> <<>>, pi |-> 0, ti |-> 0,
     params |-> EmptyMap, result |-> NoMatch]

MatchStart(pattern, path) ==
    [pc |-> "loop", pattern |-> pattern, path |-> path,
     pi |-> skipSlash(pattern, 0), ti |-> skipSlash(path, 0),
     params |-> EmptyMap, result |-> NoMatch]

MatchInit ==
    /\ \E pattern \in StringsUpTo(PatternChars, MaxPatLen) :
          \E path \in StringsUpTo(PathChars, MaxPathLen) :
              match = MatchStart(pattern, path)
    /\ routes = <<>>
    /\ last = <<>>
    /\ nops = 0
    /\ GlobalMiddlewares = <<>>
    /\ req = <<>>
    /\ groups = <<>>
    /\ staticRoutes = <<>>
    /\ NotFoundHandler = NilHandler
    /\ heap = <<>>
    /\ threads = <<>>

\* The loop runs and the switch takes the branch of `char`.
MatchAt(char) ==
    /\ match.pc = "loop"
    /\ LoopCond(match.pattern, match.path, match.pi, match.ti)
    /\ LET c == At(match.pattern, match.pi)
       IN IF char = "other" THEN c \notin {":", "*"} ELSE c = char

MatchIterate ==
    /\ LET r == LoopBody(match.pattern, match.path, match.pi, match.ti, match.params)
       IN match' = IF r.fail
                   THEN [match EXCEPT !.pc = "done", !.result = NoMatch]
                   ELSE [match EXCEPT !.pi = r.pi, !.ti = r.ti, !.params = r.params]
    /\ UNCHANGED <<routes, last, nops, GlobalMiddlewares, req, groups, staticRoutes, NotFoundHandler,
                   heap, threads>>

MatchParamStep ==
    /\ MatchAt(":")
    /\ MatchIterate

MatchWildcardStep ==
    /\ MatchAt("*")
    /\ MatchIterate

MatchLiteralStep ==
    /\ MatchAt("other")
    /\ MatchIterate

MatchReturn ==
    /\ match.pc = "loop"
    /\ ~LoopCond(match.pattern, match.path, match.pi, match.ti)
    /\ match' = [match EXCEPT !.pc = "done",
                    !.result = Terminal(match.pattern, match.path,
                                        match.pi, match.ti, match.params)]
    /\ UNCHANGED <<routes, last, nops, GlobalMiddlewares, req, groups, staticRoutes, NotFoundHandler,
                   heap, threads>>

MatchNext ==
    \/ MatchParamStep
    \/ MatchWildcardStep
    \/ MatchLiteralStep
    \/ MatchReturn

SpecMatch == MatchInit /\ [][MatchNext]_vars

-----------------------------------------------------------------------------
(* Vocabulary of the matcher's properties: slash-separated segments,       *)
(* computed on the text itself and not with the matcher's cursors.          *)

HasChar(s, c) == \E i \in 1..Len(s) : s[i] = c

RECURSIVE SplitSegments(_, _)
SplitSegments(s, cur) ==
    LET flush == IF cur = <<>> THEN <<>> ELSE <<cur>>
    IN IF s = <<>> THEN flush
       ELSE IF Head(s) = "/" THEN flush \o SplitSegments(Tail(s), <<>>)
       ELSE SplitSegments(Tail(s), Append(cur, Head(s)))

\* The non-empty segments of s, in order.
Segments(s) == SplitSegments(s, <<>>)

RECURSIVE DropSlashes(_)
DropSlashes(s) == IF s # <<>> /\ Head(s) = "/" THEN DropSlashes(Tail(s)) ELSE s

RECURSIVE DropSegment(_)
DropSegment(s) == IF s # <<>> /\ Head(s) # "/" THEN DropSegment(Tail(s)) ELSE s

\* The text of s from the first character of its (k+1)-th non-empty segment.
RECURSIVE RemainderFrom(_, _)
RemainderFrom(s, k) ==
    IF k = 0 THEN DropSlashes(s)
    ELSE RemainderFrom(DropSegment(DropSlashes(s)), k - 1)

IsPrefixSeq(p, s) == Len(p) <= Len(s) /\ SubSeq(s, 1, Len(p)) = p

IsLiteral(s) == ~HasChar(s, ":") /\ ~HasChar(s, "*")

MatchDone == match.pc = "done"

\* C1: for a pattern with neither ':' nor '*', MatchRoute returns true iff
\* pattern and path have the same sequence of non-empty segments.
C1_LiteralMatchIffSameSegments ==
    (MatchDone /\ IsLiteral(match.pattern)) =>
        (match.result.matched <=> Segments(match.pattern) = Segments(match.path))

\* The ':name' segments of a pattern.
ParamSegments(pattern) ==
    {i \in 1..Len(Segments(pattern)) : Head(Segments(pattern)[i]) = ":"}

\* C2: on success every ':name' of the pattern (patterns without '*' are
\* enough here) is bound to a non-empty, slash-free value that is a whole
\* segment of the path; and a path with segments left over when the pattern
\* is exhausted gives (false, nil).
C2_ParamBoundToWholeSegment ==
    (MatchDone /\ ~HasChar(match.pattern, "*")) =>
        /\ match.result.matched =>
              \A i \in ParamSegments(match.pattern) :
                  LET name == Tail(Segments(match.pattern)[i])
                  IN /\ name \in DOMAIN match.result.params
                     /\ match.result.params[name] # <<>>
                     /\ ~HasChar(match.result.params[name], "/")
                     /\ \E j \in 1..Len(Segments(match.path)) :
                            Segments(match.path)[j] = match.result.params[name]
        /\ (match.pi = Len(match.pattern) /\ match.ti < Len(match.path)) =>
              (~match.result.matched /\ match.result.nilParams)

\* The pattern is a literal prefix followed by a last segment '*name', and
\* the path starts with the prefix's segments and has more after them.
WildcardTail(pattern, path, star) ==
    /\ star \in 1..Len(pattern)
    /\ pattern[star] = "*"
    /\ star = 1 \/ pattern[star - 1] = "/"
    /\ IsLiteral(SubSeq(pattern, 1, star - 1))
    /\ ~HasChar(SubSeq(pattern, star + 1, Len(pattern)), "/")
    /\ IsPrefixSeq(Segments(SubSeq(pattern, 1, star - 1)), Segments(path))
    /\ Len(Segments(path)) > Len(Segments(SubSeq(pattern, 1, star - 1)))

\* C3: a pattern ending in '*name' matches every path that has the literal
\* prefix and a non-empty remainder, and binds name to the whole remainder,
\* inner slashes included.
C3_WildcardBindsRemainder ==
    MatchDone =>
        \A star \in 1..Len(match.pattern) :
            WildcardTail(match.pattern, match.path, star) =>
                LET name == SubSeq(match.pattern, star + 1, Len(match.pattern))
                    k == Len(Segments(SubSeq(match.pattern, 1, star - 1)))
                IN /\ match.result.matched
                   /\ name \in DOMAIN match.result.params
                   /\ match.result.params[name] = RemainderFrom(match.path, k)

\* C3 witness: a wildcard after a literal prefix has bound a remainder that
\* holds a slash.
C3_Witness ==
    /\ MatchDone
    /\ match.result.matched
    /\ \E star \in 2..Len(match.pattern) :
          /\ WildcardTail(match.pattern, match.path, star)
          /\ Segments(SubSeq(match.pattern, 1, star - 1)) # <<>>
          /\ \E name \in DOMAIN match.result.params :
                HasChar(match.result.params[name], "/")


-----------------------------------------------------------------------------
(* Router: the route table. A *Route is filed in exactly one place (a key  *)
(* of one exact map or one position of one params list), so the table holds *)
(* the Route values themselves.                                             *)

MaxOps == 3

\* strings.ToUpper on the method names used here
ToUpper(m) ==
    CASE m = "get" -> "GET"
      [] m = "post" -> "POST"
      [] OTHER -> m

\* reflect.ValueOf(m).Pointer(): the code address of a func value. Two
\* closures made from the same function literal share it.
Pointer(m) ==
    CASE m = "m1" -> "f1"
      [] m = "m1b" -> "f1"
      [] m = "m2" -> "f2"
      [] OTHER -> m

wrapMiddleware(m) == [id |-> Pointer(m), handler |-> m]

\* var mwEntries []middlewareEntry; for _, m := range middlewares { append }
RECURSIVE wrapAll(_)
wrapAll(ms) == IF ms = <<>> THEN <<>> ELSE <<wrapMiddleware(Head(ms))>> \o wrapAll(Tail(ms))

middlewareIDsEqual(a, b) == Pointer(a) = b.id

NoRenderer == "nil"

\* &methodRoutes{exact: make(map[string]*Route), params: []*Route{}}
NewMethodRoutes == [exact |-> EmptyMap, params |-> <<>>]

\* dr.routes = sync.Map{}
EmptyRoutes == [m \in {} |-> NewMethodRoutes]

MapRemove(f, k) == [x \in (DOMAIN f) \ {k} |-> f[x]]

\* append(s[:i], s[i+1:]...) for the 1-based position i
RemoveAt(s, i) == SubSeq(s, 1, i - 1) \o SubSeq(s, i + 1, Len(s))

\* for i, route := range mr.params { if route.Path == path {...; return} }:
\* the first position whose route has this Path, 0 when there is none.
ParamIndex(params, path) ==
    IF \E i \in 1..Len(params) : params[i].Path = path
    THEN CHOOSE i \in 1..Len(params) :
            /\ params[i].Path = path
            /\ \A j \in 1..(i - 1) : params[j].Path # path
    ELSE 0

\* strings.Contains(path, ":")
IsParamPath(path) == HasChar(path, ":")

\* if strings.Contains(path, ":") { params = append(params, route) }
\* else { exact[path] = route }
\* A filing that ignores the shape of the path.
FileExactOnly(mr, route) == [mr EXCEPT !.exact = MapPut(mr.exact, route.Path, route)]

File(mr, route) ==
    IF IsParamPath(route.Path)
    THEN [mr EXCEPT !.params = Append(mr.params, route)]
    ELSE [mr EXCEPT !.exact = MapPut(mr.exact, route.Path, route)]

\* The shared shape of UpdateRoute, AddMiddleware, RemoveMiddleware and
\* SetRenderer: the exact entry if present, else the first params entry
\* with that Path; found tells whether there was one.
Locate(t, method, path) ==
    IF ToUpper(method) \notin DOMAIN t THEN [found |-> FALSE, exact |-> FALSE, index |-> 0]
    ELSE LET mr == t[ToUpper(method)]
         IN IF path \in DOMAIN mr.exact THEN [found |-> TRUE, exact |-> TRUE, index |-> 0]
            ELSE [found |-> ParamIndex(mr.params, path) # 0, exact |-> FALSE,
                  index |-> ParamIndex(mr.params, path)]

\* The located route.
Located(t, method, path) ==
    IF Locate(t, method, path).exact THEN t[ToUpper(method)].exact[path]
    ELSE t[ToUpper(method)].params[Locate(t, method, path).index]

\* An assignment that also drops what the route holds in another field.
ModifyRouteAndReset(t, method, path, field, value) ==
    LET at == Locate(t, method, path)
        M == ToUpper(method)
        other == IF field = "Renderer" THEN "Handler" ELSE "Renderer"
    IN IF ~at.found THEN t
       ELSE IF at.exact
            THEN [t EXCEPT ![M].exact[path][field] = value,
                           ![M].exact[path][other] = ""]
            ELSE [t EXCEPT ![M].params[at.index][field] = value,
                           ![M].params[at.index][other] = ""]

\* Assign one field of the located route in place (routes are held by
\* pointer): route.<field> = value.
ModifyRoute(t, method, path, field, value) ==
    LET at == Locate(t, method, path)
        M == ToUpper(method)
    IN IF ~at.found THEN t
       ELSE IF at.exact
            THEN [t EXCEPT ![M].exact[path][field] = value]
            ELSE [t EXCEPT ![M].params[at.index][field] = value]

\* A registration that keeps the route already held by an exact key.
AddRouteKeepFirst(t, method, path, handler, middlewares) ==
    LET M == ToUpper(method)
        mr == IF M \in DOMAIN t THEN t[M] ELSE NewMethodRoutes
        route == [Method |-> M, Path |-> path, Handler |-> handler,
                  Middlewares |-> wrapAll(middlewares), Renderer |-> NoRenderer]
    IN IF path \in DOMAIN mr.exact THEN t ELSE MapPut(t, M, File(mr, route))

AddRoute(t, method, path, handler, middlewares) ==
    LET M == ToUpper(method)
        mr == IF M \in DOMAIN t THEN t[M] ELSE NewMethodRoutes
        route == [Method |-> M, Path |-> path, Handler |-> handler,
                  Middlewares |-> wrapAll(middlewares), Renderer |-> NoRenderer]
    IN MapPut(t, M, File(mr, route))

\* An update that looks in the exact map only.
UpdateRouteExactOnly(t, method, path, newHandler) ==
    LET M == ToUpper(method)
    IN IF M \in DOMAIN t /\ path \in DOMAIN t[M].exact
       THEN [t EXCEPT ![M].exact[path].Handler = newHandler]
       ELSE t

UpdateRoute(t, method, path, newHandler) ==
    ModifyRoute(t, method, path, "Handler", newHandler)

\* A rename that rewrites the Path field where the route sits.
RenameRouteInPlace(t, method, oldPath, newPath) ==
    ModifyRoute(t, method, oldPath, "Path", newPath)

RenameRoute(t, method, oldPath, newPath) ==
    LET at == Locate(t, method, oldPath)
        M == ToUpper(method)
    IN IF ~at.found THEN t
       ELSE IF at.exact
            THEN LET route == [t[M].exact[oldPath] EXCEPT !.Path = newPath]
                     removed == [t[M] EXCEPT !.exact = MapRemove(t[M].exact, oldPath)]
                 IN [t EXCEPT ![M] = File(removed, route)]
            ELSE LET route == [t[M].params[at.index] EXCEPT !.Path = newPath]
                     removed == [t[M] EXCEPT !.params = RemoveAt(t[M].params, at.index)]
                 IN [t EXCEPT ![M] = File(removed, route)]

AddMiddleware(t, method, path, middlewares) ==
    IF ~Locate(t, method, path).found THEN t
    ELSE ModifyRoute(t, method, path, "Middlewares",
                     Located(t, method, path).Middlewares \o wrapAll(middlewares))

\* A removal that compares func values, not their identities.
RECURSIVE removeFromChainByValue(_, _)
removeFromChainByValue(chain, middlewares) ==
    IF chain = <<>> THEN <<>>
    ELSE LET existing == Head(chain)
             shouldRemove == \E k \in 1..Len(middlewares) :
                                middlewares[k] = existing.handler
         IN (IF shouldRemove THEN <<>> ELSE <<existing>>)
            \o removeFromChainByValue(Tail(chain), middlewares)

\* removeFromRoute: keep the entries whose id equals that of no argument
RECURSIVE removeFromChain(_, _)
removeFromChain(chain, middlewares) ==
    IF chain = <<>> THEN <<>>
    ELSE LET existing == Head(chain)
             shouldRemove == \E k \in 1..Len(middlewares) :
                                middlewareIDsEqual(middlewares[k], existing)
         IN (IF shouldRemove THEN <<>> ELSE <<existing>>)
            \o removeFromChain(Tail(chain), middlewares)

RemoveMiddleware(t, method, path, middlewares) ==
    IF ~Locate(t, method, path).found THEN t
    ELSE ModifyRoute(t, method, path, "Middlewares",
                     removeFromChain(Located(t, method, path).Middlewares, middlewares))

SetRenderer(t, method, path, renderer) ==
    ModifyRoute(t, method, path, "Renderer", renderer)

\* A removal that empties the method's partition when the path is not
\* there.
RemoveRouteElseClear(t, method, path) ==
    LET at == Locate(t, method, path)
        M == ToUpper(method)
    IN IF ~at.found THEN (IF M \in DOMAIN t THEN [t EXCEPT ![M] = NewMethodRoutes] ELSE t)
       ELSE IF at.exact
            THEN [t EXCEPT ![M].exact = MapRemove(t[M].exact, path)]
            ELSE [t EXCEPT ![M].params = RemoveAt(t[M].params, at.index)]

RemoveRoute(t, method, path) ==
    LET at == Locate(t, method, path)
        M == ToUpper(method)
    IN IF ~at.found THEN t
       ELSE IF at.exact
            THEN [t EXCEPT ![M].exact = MapRemove(t[M].exact, path)]
            ELSE [t EXCEPT ![M].params = RemoveAt(t[M].params, at.index)]

ClearRoutes(t) == EmptyRoutes

\* (nil, false, nil)
NoRoute ==
    [Method |-> "", Path |-> <<>>, Handler |-> "", Middlewares |-> <<>>,
     Renderer |-> NoRenderer]

LookupMiss == [matched |-> FALSE, route |-> NoRoute, nilParams |-> TRUE, params |-> EmptyMap]

\* for _, route := range mr.params { if matched, params := utils.MatchRoute(...) }
\* A scan in which the last matching pattern wins.
RECURSIVE ScanParamsLastWins(_, _)
ScanParamsLastWins(params, path) ==
    IF params = <<>> THEN LookupMiss
    ELSE LET r == MatchRoute(params[Len(params)].Path, path)
         IN IF r.matched
            THEN [matched |-> TRUE, route |-> params[Len(params)],
                  nilParams |-> FALSE, params |-> r.params]
            ELSE ScanParamsLastWins(SubSeq(params, 1, Len(params) - 1), path)

RECURSIVE ScanParams(_, _)
ScanParams(params, path) ==
    IF params = <<>> THEN LookupMiss
    ELSE LET r == MatchRoute(Head(params).Path, path)
         IN IF r.matched
            THEN [matched |-> TRUE, route |-> Head(params),
                  nilParams |-> FALSE, params |-> r.params]
            ELSE ScanParams(Tail(params), path)

\* A lookup that scans the parameter sequence before the exact map.
RouterMatchRouteParamsFirst(t, method, path) ==
    IF method \notin DOMAIN t THEN LookupMiss
    ELSE IF ScanParams(t[method].params, path).matched
         THEN ScanParams(t[method].params, path)
         ELSE IF path \in DOMAIN t[method].exact
              THEN [matched |-> TRUE, route |-> t[method].exact[path],
                    nilParams |-> TRUE, params |-> EmptyMap]
              ELSE LookupMiss

\* Router.MatchRoute: the method is looked up as given, not upper-cased.
RouterMatchRoute(t, method, path) ==
    IF method \notin DOMAIN t THEN LookupMiss
    ELSE IF path \in DOMAIN t[method].exact
         THEN [matched |-> TRUE, route |-> t[method].exact[path],
               nilParams |-> TRUE, params |-> EmptyMap]
         ELSE ScanParams(t[method].params, path)

-----------------------------------------------------------------------------
(* The calls made on the router. *)

PathA == <<"/", "a">>

PathB == <<"/", "b">>

PathAB == <<"/", "a", "/", "b">>

PatX == <<"/", ":", "x">>

PatY == <<"/", ":", "y">>

PatWild == <<"/", "*", "r">>

RoutePaths == {PathA, PathB, PatX, PatY, PatWild}

RequestPaths == {PathA, PathB, PathAB}

\* AddRoute is called with both spellings of the method; the calls that look
\* a route up by (method, path) use the lower-case one, which ToUpper folds.
MethodArgs == {"GET", "get"}

TargetMethods == {"get"}

Handlers == {"h1", "h2"}

MiddlewareArgs == {<<>>, <<"m1">>}

MiddlewareEdits == {<<"m2">>}

Renderers == {"v1"}

NoCall ==
    [op |-> "none", method |-> "", path |-> <<>>, newPath |-> <<>>, handler |-> "",
     middlewares |-> <<>>, renderer |-> NoRenderer, found |-> FALSE]

\* Record a call and install the table it leaves.
Call(op, method, path, newPath, handler, middlewares, renderer, post) ==
    /\ nops' = nops + 1
    /\ routes' = post
    /\ last' = [op |-> op, method |-> method, path |-> path, newPath |-> newPath,
                handler |-> handler, middlewares |-> middlewares, renderer |-> renderer,
                found |-> Locate(routes, method, path).found]
    /\ UNCHANGED <<match, GlobalMiddlewares, req, groups, staticRoutes, NotFoundHandler,
                   heap, threads>>

DoAddRoute ==
    \E method \in MethodArgs, path \in RoutePaths, handler \in Handlers,
       middlewares \in MiddlewareArgs :
        /\ nops < MaxOps
        /\ Call("AddRoute", method, path, <<>>, handler, middlewares, NoRenderer,
                AddRoute(routes, method, path, handler, middlewares))

DoUpdateRoute ==
    \E method \in TargetMethods, path \in RoutePaths, newHandler \in Handlers :
        /\ nops < MaxOps
        /\ Call("UpdateRoute", method, path, <<>>, newHandler, <<>>, NoRenderer,
                UpdateRoute(routes, method, path, newHandler))

DoRenameRoute ==
    \E method \in TargetMethods, oldPath \in RoutePaths, newPath \in RoutePaths :
        /\ nops < MaxOps
        /\ Call("RenameRoute", method, oldPath, newPath, "", <<>>, NoRenderer,
                RenameRoute(routes, method, oldPath, newPath))

DoAddMiddleware ==
    \E method \in TargetMethods, path \in RoutePaths, middlewares \in MiddlewareEdits :
        /\ nops < MaxOps
        /\ Call("AddMiddleware", method, path, <<>>, "", middlewares, NoRenderer,
                AddMiddleware(routes, method, path, middlewares))

DoRemoveMiddleware ==
    \E method \in TargetMethods, path \in RoutePaths, middlewares \in MiddlewareEdits :
        /\ nops < MaxOps
        /\ Call("RemoveMiddleware", method, path, <<>>, "", middlewares, NoRenderer,
                RemoveMiddleware(routes, method, path, middlewares))

DoSetRenderer ==
    \E method \in TargetMethods, path \in RoutePaths, renderer \in Renderers :
        /\ nops < MaxOps
        /\ Call("SetRenderer", method, path, <<>>, "", <<>>, renderer,
                SetRenderer(routes, method, path, renderer))

DoRemoveRoute ==
    \E method \in TargetMethods, path \in RoutePaths :
        /\ nops < MaxOps
        /\ Call("RemoveRoute", method, path, <<>>, "", <<>>, NoRenderer,
                RemoveRoute(routes, method, path))

DoClearRoutes ==
    /\ nops < MaxOps
    /\ Call("ClearRoutes", "", <<>>, <<>>, "", <<>>, NoRenderer, ClearRoutes(routes))

\* router.New: no partition yet
RouterInit ==
    /\ routes = EmptyRoutes
    /\ last = NoCall
    /\ nops = 0

Init ==
    /\ RouterInit
    /\ match = MatchIdle
    /\ GlobalMiddlewares = <<>>
    /\ req = <<>>
    /\ groups = <<>>
    /\ staticRoutes = <<>>
    /\ NotFoundHandler = NilHandler
    /\ heap = <<>>
    /\ threads = <<>>

Next ==
    \/ DoAddRoute
    \/ DoUpdateRoute
    \/ DoRenameRoute
    \/ DoAddMiddleware
    \/ DoRemoveMiddleware
    \/ DoSetRenderer
    \/ DoRemoveRoute
    \/ DoClearRoutes

Spec == Init /\ [][Next]_vars


-----------------------------------------------------------------------------
(* Properties of the route table. *)

\* Route.Serve: chain = the route's middleware handlers, then its Handler
ServeChain(route) ==
    [i \in 1..Len(route.Middlewares) |-> route.Middlewares[i].handler]
        \o <<route.Handler>>

Min(S) == CHOOSE x \in S : \A y \in S : x <= y

\* The positions of the parameter sequence whose pattern matches path q.
MatchingParams(t, M, q) ==
    {i \in 1..Len(t[M].params) : MatchRoute(t[M].params[i].Path, q).matched}

\* The routes of the table filed for method M whose Path is p.
RoutesAt(t, M, p) ==
    IF M \notin DOMAIN t THEN {}
    ELSE {<<"exact", k>> : k \in {k \in DOMAIN t[M].exact : t[M].exact[k].Path = p}}
         \cup {<<"params", i>> : i \in {i \in 1..Len(t[M].params) : t[M].params[i].Path = p}}

\* The request paths that ask for the route registered under p: p itself
\* for a path without ':', the paths the pattern matches otherwise.
RequestsFor(p) ==
    IF IsParamPath(p) THEN {q \in RequestPaths : MatchRoute(p, q).matched} ELSE {p}

\* C4: a route added under a wildcard pattern without ':' is filed in the
\* parameter sequence, and a lookup of '/a/b' then returns it with r = 'a/b'.
C4_WildcardRouteIsMatched ==
    (last.op = "AddRoute" /\ HasChar(last.path, "*") /\ ~HasChar(last.path, ":")) =>
        LET M == ToUpper(last.method)
            r == RouterMatchRoute(routes, M, PathAB)
        IN /\ \E i \in 1..Len(routes[M].params) : routes[M].params[i].Path = last.path
           /\ r.matched
           /\ r.route.Path = last.path
           /\ r.params = MapPut(EmptyMap, <<"r">>, <<"a", "/", "b">>)

\* C5 as stated: when several parameterized routes match a path, the lookup
\* returns the earliest filed of them.
C5_EarliestParamAlways ==
    \A M \in DOMAIN routes : \A q \in RequestPaths :
        Cardinality(MatchingParams(routes, M, q)) >= 2 =>
            LET r == RouterMatchRoute(routes, M, q)
            IN r.matched /\ r.route = routes[M].params[Min(MatchingParams(routes, M, q))]

\* C5, amended: when several parameterized routes match a path and no route
\* is filed in the exact map under that very path, the lookup returns the
\* earliest filed of them, with the params of that pattern.
C5_EarliestParamUnlessExact ==
    \A M \in DOMAIN routes : \A q \in RequestPaths :
        (Cardinality(MatchingParams(routes, M, q)) >= 2 /\ q \notin DOMAIN routes[M].exact) =>
            LET r == RouterMatchRoute(routes, M, q)
                first == routes[M].params[Min(MatchingParams(routes, M, q))]
            IN /\ r.matched
               /\ r.route = first
               /\ r.params = MatchRoute(first.Path, q).params

\* C5 witness: two parameterized routes with different handlers match '/a',
\* which no exact route holds.
C5_Witness ==
    /\ "GET" \in DOMAIN routes
    /\ PathA \notin DOMAIN routes["GET"].exact
    /\ Cardinality(MatchingParams(routes, "GET", PathA)) >= 2
    /\ \E i, j \in MatchingParams(routes, "GET", PathA) :
          /\ i < j
          /\ routes["GET"].params[i].Handler # routes["GET"].params[j].Handler
          /\ routes["GET"].params[i].Path # routes["GET"].params[j].Path

\* C6: a route whose Path contains ':' is in the parameter sequence and not
\* in the exact map; every other route is in the exact map under its own
\* Path; and after RenameRoute the route is filed by the shape of newPath.
C6_FilingInvariant ==
    /\ \A M \in DOMAIN routes :
          /\ \A k \in DOMAIN routes[M].exact :
                /\ routes[M].exact[k].Path = k
                /\ ~HasChar(k, ":")
                /\ routes[M].exact[k].Method = M
          /\ \A i \in 1..Len(routes[M].params) :
                /\ HasChar(routes[M].params[i].Path, ":")
                /\ routes[M].params[i].Method = M
    /\ (last.op = "RenameRoute" /\ last.found) =>
          LET mr == routes[ToUpper(last.method)]
          IN IF HasChar(last.newPath, ":")
             THEN /\ mr.params # <<>>
                  /\ mr.params[Len(mr.params)].Path = last.newPath
                  /\ last.newPath \notin DOMAIN mr.exact
             ELSE /\ last.newPath \in DOMAIN mr.exact
                  /\ \A i \in 1..Len(mr.params) : mr.params[i].Path # last.newPath

\* C6 witness: a literal route has been renamed to a parameterized path.
C6_Witness ==
    /\ last.op = "RenameRoute"
    /\ last.found
    /\ ~HasChar(last.path, ":")
    /\ HasChar(last.newPath, ":")
    /\ routes["GET"].exact # EmptyMap

\* C7: after AddRoute on a path without ':', the table holds exactly one
\* route for that (upper-cased method, path), with the handler and the
\* middlewares of this call.
C7_LastWriteWins ==
    (last.op = "AddRoute" /\ ~IsParamPath(last.path)) =>
        LET M == ToUpper(last.method)
        IN /\ Cardinality(RoutesAt(routes, M, last.path)) = 1
           /\ last.path \in DOMAIN routes[M].exact
           /\ routes[M].exact[last.path].Handler = last.handler
           /\ routes[M].exact[last.path].Middlewares = wrapAll(last.middlewares)

\* C7 witness: AddRoute, spelled 'get', on a literal path that already had a
\* route; the new route carries a middleware.
C7_Witness ==
    /\ last.op = "AddRoute"
    /\ last.found
    /\ last.method = "get"
    /\ last.path = PathA
    /\ last.middlewares # <<>>

\* C8 as stated: after UpdateRoute(m, p, h2) on a registered route every
\* request for (m, p) is served by h2 (requests whose path is itself the
\* key of another, literal route are left aside here); and a second
\* identical call changes nothing.
C8_UpdatedHandlerAlwaysServed ==
    (last.op = "UpdateRoute" /\ last.found) =>
        /\ \A q \in RequestsFor(last.path) :
              LET M == ToUpper(last.method)
                  r == RouterMatchRoute(routes, M, q)
              IN (q = last.path \/ q \notin DOMAIN routes[M].exact) =>
                    /\ r.matched
                    /\ ServeChain(r.route)[Len(ServeChain(r.route))] = last.handler
        /\ UpdateRoute(routes, last.method, last.path, last.handler) = routes

\* C8, amended: after UpdateRoute(m, p, h2) on a registered route, a request
\* for (m, p) that the lookup resolves to the route registered under p is
\* served by h2 (always so for a path without ':'); and a second identical
\* call changes nothing.
C8_UpdatedHandlerServedWhenResolved ==
    (last.op = "UpdateRoute" /\ last.found) =>
        /\ \A q \in RequestsFor(last.path) :
              LET r == RouterMatchRoute(routes, ToUpper(last.method), q)
              IN /\ r.matched
                 /\ ~IsParamPath(last.path) => r.route.Path = last.path
                 /\ r.route.Path = last.path =>
                       ServeChain(r.route)[Len(ServeChain(r.route))] = last.handler
        /\ UpdateRoute(routes, last.method, last.path, last.handler) = routes

\* C8 witness: a parameterized route was updated and a request resolves to it.
C8_Witness ==
    /\ last.op = "UpdateRoute"
    /\ last.found
    /\ last.path = PatY
    /\ last.handler = "h2"
    /\ RouterMatchRoute(routes, "GET", PathA).route.Path = PatY
    /\ Len(routes["GET"].params) >= 2

\* C9 as stated (for oldPath # newPath): after RenameRoute on a registered
\* route a lookup of oldPath misses and a lookup of newPath returns a route
\* with Path = newPath and the handler and middlewares it had before.
C9_OldMissesNewHits ==
    [][(last'.op = "RenameRoute" /\ last'.found /\ last'.path # last'.newPath) =>
          LET M == ToUpper(last'.method)
              old == Located(routes, last'.method, last'.path)
          IN /\ ~RouterMatchRoute(routes', M, last'.path).matched
             /\ RouterMatchRoute(routes', M, last'.newPath).matched
             /\ RouterMatchRoute(routes', M, last'.newPath).route
                    = [old EXCEPT !.Path = last'.newPath]]_vars

\* C9, amended (for oldPath # newPath): after RenameRoute on a registered
\* route, a lookup of oldPath misses unless a parameterized route (the
\* renamed one included) matches oldPath; a lookup of newPath returns the
\* route with Path = newPath and the handler, middlewares and renderer it
\* had before, unless newPath is parameterized and an earlier-filed
\* parameterized route matches it.
C9_RenameRefiles ==
    [][(last'.op = "RenameRoute" /\ last'.found /\ last'.path # last'.newPath) =>
          LET M == ToUpper(last'.method)
              old == Located(routes, last'.method, last'.path)
              renamed == [old EXCEPT !.Path = last'.newPath]
              params == routes'[M].params
          IN /\ MatchingParams(routes', M, last'.path) = {} =>
                    ~RouterMatchRoute(routes', M, last'.path).matched
             /\ ~IsParamPath(last'.newPath) =>
                    RouterMatchRoute(routes', M, last'.newPath).route = renamed
             /\ IsParamPath(last'.newPath) =>
                    /\ params # <<>>
                    /\ params[Len(params)] = renamed
                    /\ MatchingParams(routes', M, last'.newPath) \subseteq {Len(params)} =>
                           RouterMatchRoute(routes', M, last'.newPath).route = renamed]_vars

\* C9 witness: '/a', carrying a middleware, was renamed to '/b'; '/a' now
\* misses and '/b' returns the route.
C9_Witness ==
    /\ last.op = "RenameRoute"
    /\ last.found
    /\ last.path = PathA
    /\ last.newPath = PathB
    /\ ~RouterMatchRoute(routes, "GET", PathA).matched
    /\ RouterMatchRoute(routes, "GET", PathB).route.Path = PathB
    /\ RouterMatchRoute(routes, "GET", PathB).route.Middlewares # <<>>


-----------------------------------------------------------------------------
(* Dispatch: one request run through Next, handler by handler. The chain   *)
(* and the cursor live in the request's Locals ("chain_handlers",          *)
(* "chain_index"); the Go call stack is the sequence `stack` of positions   *)
(* of `log`, which records every handler invocation and how many times it  *)
(* has called Next.                                                         *)

MaxGlobals == 2

MaxNextCalls == 2

\* The global middlewares, in the order Use is called with them.
GlobalOrder == <<"g1", "g2", "g3">>

GlobalArgs == {GlobalOrder[i] : i \in 1..Len(GlobalOrder)}

RouteMiddlewareArgs == {<<>>, <<"m1">>, <<"m1", "m2">>}

DispatchRoutePaths == {PathA, PatX}

\* Static prefixes, and the request paths under them: an existing file, a
\* missing one, a directory, a path that climbs out of the directory to a
\* missing file, and one that climbs into the sibling directory.
StaticPrefix == <<"/", "s">>
StaticPrefixSlash == <<"/", "s", "/">>
StaticPrefixes == {StaticPrefix, StaticPrefixSlash}
StaticFile == <<"/", "s", "/", "a">>
StaticMissing == <<"/", "s", "/", "b">>
StaticDir == <<"/", "s", "/", "e">>
StaticClimb == <<"/", "s", "/", ".", ".", "/", "b">>
StaticSibling == <<"/", "s", "/", ".", ".", "/", "d", "2", "/", "a">>
StaticRequestPaths == {StaticFile, StaticMissing, StaticDir, StaticClimb, StaticSibling}

DispatchRequestPaths == {PathA, PathB} \cup StaticRequestPaths

\* dispatch's closure nextFunc, as an entry of the global chain
NextFunc == "nextFunc"

\* An error value is the sequence of its layers, outermost first: the text
\* each fmt.Errorf put around the error it wraps, and the chain index that
\* text names (-1 when it names none). nil is the empty sequence.
NilError == <<>>

Layer(text, index) == [text |-> text, index |-> index]

\* The error a handler makes up itself.
HandlerError == <<Layer("handler error", -1)>>

\* Router.Use
Use(globals, mw) == globals \o wrapAll(mw)

GetGlobalMiddlewareChain(globals) == [i \in 1..Len(globals) |-> globals[i].handler]

\* A chain with the lookup step ahead of the global middlewares.
DispatchChainLookupFirst(globals) ==
    <<NextFunc>> \o [i \in 1..Len(globals) |-> globals[i].handler]

\* chain := append(globalChain, nextFunc)
DispatchChain(globals) == Append(GetGlobalMiddlewareChain(globals), NextFunc)

ReqIdle ==
    [pc |-> "idle", method |-> "", path |-> <<>>, chain_handlers |-> <<>>,
     chain_index |-> 0, stack |-> <<>>, log |-> <<>>, nilParams |-> TRUE,
     params |-> EmptyMap, outcome |-> "none", by |-> 0, file |-> <<>>,
     result |-> NilError]

\* One handler invocation: the handler, the chain index it was invoked
\* at, how many times it has called Next, what its last call of Next
\* returned and what it returned itself.
Invocation(h, idx) ==
    [h |-> h, idx |-> idx, calls |-> 0, got |-> NilError, ret |-> NilError]

\* A Next that invokes the handler at idx and leaves the stored index
\* alone.
NextCallNoAdvance(r) ==
    IF r.chain_index >= Len(r.chain_handlers) THEN r
    ELSE [r EXCEPT !.log = Append(r.log, Invocation(At(r.chain_handlers, r.chain_index),
                                                    r.chain_index)),
                   !.stack = Append(r.stack, Len(r.log) + 1)]

\* Next(c) up to the handler's invocation: past the end a no-op; otherwise
\* store idx+1, then call handlers[idx], whose invocation is logged and
\* pushed on the stack.
NextCall(r) ==
    IF r.chain_index >= Len(r.chain_handlers) THEN r
    ELSE [r EXCEPT !.chain_index = r.chain_index + 1,
                   !.log = Append(r.log, Invocation(At(r.chain_handlers, r.chain_index),
                                                    r.chain_index)),
                   !.stack = Append(r.stack, Len(r.log) + 1)]

\* Next(c) after the handler at idx has returned err:
\* if err := handlers[idx](c); err != nil { return err }; return nil
NextReturn(idx, err) == err

\* route.Serve after its call of Next has returned err
ServeReturnValue(err) ==
    IF err # NilError THEN <<Layer("chain error", -1)>> \o err ELSE NilError

\* An installation that keeps the chain already in the Locals.
InstallChainKeepFirst(r, chain) ==
    NextCall([r EXCEPT !.chain_handlers = IF r.chain_handlers = <<>> THEN chain
                                          ELSE r.chain_handlers,
                       !.chain_index = 0])

\* c.Locals("chain_handlers", chain); c.Locals("chain_index", 0); Next(c)
InstallChain(r, chain) ==
    NextCall([r EXCEPT !.chain_handlers = chain, !.chain_index = 0])

\* The running invocation: the top of the call stack.
Top == req.stack[Len(req.stack)]

Running == req.pc = "running" /\ req.stack # <<>>

\* A return after which the caller goes on to the next chain position by
\* itself.
PopThenAdvance(r, err) ==
    LET top == r.stack[Len(r.stack)]
        rest == SubSeq(r.stack, 1, Len(r.stack) - 1)
        back == NextReturn(r.log[top].idx, err)
        r1 == [r EXCEPT !.log[top].ret = err, !.stack = rest]
    IN IF rest = <<>>
       THEN [r1 EXCEPT !.pc = "done", !.result = back]
       ELSE NextCall([r1 EXCEPT !.log[rest[Len(rest)]].got = back])

\* The running handler returns err to the Next that invoked it, and Next
\* returns to its caller: the invocation below on the stack, or, with the
\* last return, the caller of dispatch.
Pop(r, err) ==
    LET top == r.stack[Len(r.stack)]
        rest == SubSeq(r.stack, 1, Len(r.stack) - 1)
        back == NextReturn(r.log[top].idx, err)
        r1 == [r EXCEPT !.log[top].ret = err, !.stack = rest]
    IN IF rest = <<>>
       THEN [r1 EXCEPT !.pc = "done", !.result = back]
       ELSE [r1 EXCEPT !.log[rest[Len(rest)]].got = back]

DoUse ==
    /\ req.pc = "idle"
    /\ Len(GlobalMiddlewares) < MaxGlobals
    /\ Len(GlobalMiddlewares) < Len(GlobalOrder)
    /\ GlobalMiddlewares' = Use(GlobalMiddlewares, <<GlobalOrder[Len(GlobalMiddlewares) + 1]>>)
    /\ UNCHANGED <<match, routes, last, nops, req, groups, staticRoutes, NotFoundHandler,
                   heap, threads>>

\* The route of this request's table is registered before the request.
DoRegister ==
    \E path \in DispatchRoutePaths, middlewares \in RouteMiddlewareArgs :
        /\ req.pc = "idle"
        /\ routes = EmptyRoutes
        /\ routes' = AddRoute(routes, "GET", path, "h1", middlewares)
        /\ UNCHANGED <<match, last, nops, GlobalMiddlewares, req, groups, staticRoutes, NotFoundHandler,
                       heap, threads>>

\* Router.dispatch up to its first handler invocation
Dispatch ==
    \E path \in DispatchRequestPaths :
        /\ req.pc = "idle"
        /\ req' = InstallChain([req EXCEPT !.pc = "running", !.method = "GET",
                                           !.path = path],
                               DispatchChain(GlobalMiddlewares))
        /\ UNCHANGED <<match, routes, last, nops, GlobalMiddlewares, groups, staticRoutes, NotFoundHandler,
                       heap, threads>>

\* A middleware or route handler calls Next(c); past the end of the chain
\* the call returns nil at once.
HandlerCallsNext ==
    /\ Running
    /\ req.log[Top].h # NextFunc
    /\ req.log[Top].calls < MaxNextCalls
    /\ req' = NextCall([req EXCEPT !.log[Top].calls = @ + 1,
                                   !.log[Top].got = NilError])
    /\ UNCHANGED <<match, routes, last, nops, GlobalMiddlewares, groups, staticRoutes, NotFoundHandler,
                   heap, threads>>

\* ---------------------------------------------------------------------
\* Static routes and the not-found handler: what nextFunc does with a
\* request that no dynamic route matched.
\* ---------------------------------------------------------------------

\* Largest number of static routes registered in one run.
MaxStatics == 2

\* The file system under the working directory: regular files and
\* directories by absolute path. The directory d holds the file a and the
\* empty directory e; its sibling d2 holds a file a of its own. The name
\* index.html is kept as one symbol.
Cwd == <<"/", "w">>
IndexHTML == <<"index.html">>
DirD == <<"d">>
Files == {<<"/", "w", "/", "d", "/", "a">>, <<"/", "w", "/", "d", "2", "/", "a">>}
Dirs == {<<"/", "w">>, <<"/", "w", "/", "d">>, <<"/", "w", "/", "d", "2">>,
         <<"/", "w", "/", "d", "/", "e">>}

Dot == <<".">>
DotDot == <<".", ".">>

\* filepath.Clean on the segments of a path: "." and empty segments are
\* dropped, ".." removes the segment before it, is dropped at the root of
\* a rooted path, and is kept at the start of a relative one.
RECURSIVE CleanSegments(_, _, _)
CleanSegments(segs, rooted, out) ==
    IF segs = <<>> THEN out
    ELSE LET seg == Head(segs)
             out1 == IF seg = Dot THEN out
                     ELSE IF seg = DotDot
                          THEN IF out # <<>> /\ out[Len(out)] # DotDot
                               THEN SubSeq(out, 1, Len(out) - 1)
                               ELSE IF rooted THEN out ELSE Append(out, seg)
                          ELSE Append(out, seg)
         IN CleanSegments(Tail(segs), rooted, out1)

RECURSIVE JoinSegments(_)
JoinSegments(segs) ==
    IF segs = <<>> THEN <<>>
    ELSE IF Len(segs) = 1 THEN Head(segs)
    ELSE Head(segs) \o <<"/">> \o JoinSegments(Tail(segs))

\* filepath.Clean
Clean(p) ==
    IF p = <<>> THEN Dot
    ELSE LET rooted == Head(p) = "/"
             body == JoinSegments(CleanSegments(Segments(p), rooted, <<>>))
         IN IF rooted THEN <<"/">> \o body
            ELSE IF body = <<>> THEN Dot ELSE body

\* filepath.Join of two elements: empty elements are ignored, the rest
\* joined with a separator and cleaned.
Join(a, b) ==
    IF a = <<>> /\ b = <<>> THEN <<>>
    ELSE IF a = <<>> THEN Clean(b)
    ELSE IF b = <<>> THEN Clean(a)
    ELSE Clean(a \o <<"/">> \o b)

\* filepath.Abs
Abs(p) == IF p # <<>> /\ Head(p) = "/" THEN Clean(p) ELSE Join(Cwd, p)

\* strings.HasPrefix and strings.TrimPrefix
HasPrefix(s, prefix) == IsPrefixSeq(prefix, s)
TrimPrefix(s, prefix) ==
    IF HasPrefix(s, prefix) THEN SubSeq(s, Len(prefix) + 1, Len(s)) ELSE s

\* os.Stat: a relative name is resolved against the working directory.
IsDir(p) == Abs(p) \in Dirs
Exists(p) == Abs(p) \in Files \/ Abs(p) \in Dirs

\* Router.Static
Static(statics, prefix, directory, listing) ==
    Append(statics, [Prefix |-> prefix, Directory |-> directory,
                     DirectoryListing |-> listing])

\* One answer of nextFunc to an unmatched request: what answered, the
\* index of the static route that did (0 for none) and the file sent.
Answer(outcome, by, file) == [outcome |-> outcome, by |-> by, file |-> file]

\* The last two steps of nextFunc: the not-found handler, else the 404.
NotFound(nf) ==
    IF nf # NilHandler THEN Answer("notfoundhandler", 0, <<>>)
    ELSE Answer("default404", 0, <<>>)

\* The loop of nextFunc over the static routes from the i-th on, and the
\* not-found steps after it, for a file that can be read and compressed
\* once os.Stat has found it.
RECURSIVE StaticLoop(_, _, _, _)
StaticLoop(statics, nf, path, i) ==
    IF i > Len(statics) THEN NotFound(nf)
    ELSE LET sr == statics[i]
             relativePath == TrimPrefix(path, sr.Prefix)
             cleanRelative == Clean(relativePath)
             filePath == Join(sr.Directory, cleanRelative)
             absDir == Abs(sr.Directory)
             absFile == Abs(filePath)
             indexPath == IF IsDir(filePath) THEN Join(filePath, IndexHTML)
                          ELSE filePath
         IN IF ~HasPrefix(path, sr.Prefix) THEN StaticLoop(statics, nf, path, i + 1)
            ELSE IF ~HasPrefix(absFile, absDir) THEN Answer("forbidden", i, <<>>)
            ELSE IF IsDir(filePath) /\ sr.DirectoryListing
                 THEN Answer("listing", i, filePath)
            ELSE IF Exists(indexPath) THEN Answer("file", i, indexPath)
            ELSE StaticLoop(statics, nf, path, i + 1)

\* A fall-through that asks the not-found handler before the static
\* routes.
FallThroughHandlerFirst(statics, nf, path) ==
    IF nf # NilHandler THEN NotFound(nf) ELSE StaticLoop(statics, nf, path, 1)

\* nextFunc after a failed lookup
FallThrough(statics, nf, path) == StaticLoop(statics, nf, path, 1)

DoStatic ==
    \E prefix \in StaticPrefixes, listing \in BOOLEAN :
        /\ req.pc = "idle"
        /\ Len(staticRoutes) < MaxStatics
        /\ staticRoutes' = Static(staticRoutes, prefix, DirD, listing)
        /\ UNCHANGED <<match, routes, last, nops, GlobalMiddlewares, req, groups,
                       NotFoundHandler, heap, threads>>

DoSetNotFoundHandler ==
    /\ req.pc = "idle"
    /\ NotFoundHandler = NilHandler
    /\ NotFoundHandler' = "nf"
    /\ UNCHANGED <<match, routes, last, nops, GlobalMiddlewares, req, groups,
                   staticRoutes, heap, threads>>

\* A route that shadows a static file is registered before the request.
DoRegisterOverStatic ==
    /\ req.pc = "idle"
    /\ routes = EmptyRoutes
    /\ routes' = AddRoute(routes, "GET", StaticFile, "h2", <<>>)
    /\ UNCHANGED <<match, last, nops, GlobalMiddlewares, req, groups, staticRoutes,
                   NotFoundHandler, heap, threads>>

\* nextFunc: the lookup, then route.Serve up to its call of Next, or the
\* fall-through to the static routes and the not-found handler. Reading or
\* compressing a file that exists may fail, which is answered with 500.
RouteLookup ==
    \E readable \in BOOLEAN :
        /\ Running
        /\ req.log[Top].h = NextFunc
        /\ req.log[Top].calls = 0
        /\ LET lk == RouterMatchRoute(routes, req.method, req.path)
               r == [req EXCEPT !.log[Top].calls = 1]
               found == FallThrough(staticRoutes, NotFoundHandler, req.path)
               a == IF found.outcome = "file" /\ ~readable
                    THEN Answer("readerror", found.by, found.file)
                    ELSE found
           IN req' = IF lk.matched
                     THEN InstallChain([r EXCEPT !.nilParams = lk.nilParams,
                                                 !.params = lk.params,
                                                 !.outcome = "served"],
                                       ServeChain(lk.route))
                     ELSE Pop([r EXCEPT !.outcome = a.outcome, !.by = a.by,
                                        !.file = a.file], NilError)
        /\ UNCHANGED <<match, routes, last, nops, GlobalMiddlewares, groups, staticRoutes,
                       NotFoundHandler, heap, threads>>

\* A middleware or route handler returns: nil, an error of its own, or
\* what its last call of Next returned.
HandlerReturn ==
    /\ Running
    /\ req.log[Top].h # NextFunc
    /\ \E err \in {NilError, HandlerError, req.log[Top].got} : req' = Pop(req, err)
    /\ UNCHANGED <<match, routes, last, nops, GlobalMiddlewares, groups, staticRoutes, NotFoundHandler,
                   heap, threads>>

\* route.Serve returns after its chain has, and nextFunc returns what
\* Serve does.
ServeReturn ==
    /\ Running
    /\ req.log[Top].h = NextFunc
    /\ req.log[Top].calls = 1
    /\ req' = Pop(req, ServeReturnValue(req.log[Top].got))
    /\ UNCHANGED <<match, routes, last, nops, GlobalMiddlewares, groups, staticRoutes, NotFoundHandler,
                   heap, threads>>

DispatchInit ==
    /\ routes = EmptyRoutes
    /\ last = NoCall
    /\ nops = 0
    /\ match = MatchIdle
    /\ GlobalMiddlewares = <<>>
    /\ req = ReqIdle
    /\ groups = <<>>
    /\ staticRoutes = <<>>
    /\ NotFoundHandler = NilHandler
    /\ heap = <<>>
    /\ threads = <<>>

DispatchNext ==
    \/ DoUse
    \/ DoRegister
    \/ Dispatch
    \/ HandlerCallsNext
    \/ RouteLookup
    \/ HandlerReturn
    \/ ServeReturn

SpecDispatch == DispatchInit /\ [][DispatchNext]_vars

\* Requests against a router with static routes and a not-found handler.
StaticNext ==
    \/ DoStatic
    \/ DoSetNotFoundHandler
    \/ DoRegisterOverStatic
    \/ Dispatch
    \/ HandlerCallsNext
    \/ RouteLookup
    \/ HandlerReturn
    \/ ServeReturn

SpecStatic == DispatchInit /\ [][StaticNext]_vars


-----------------------------------------------------------------------------
(* Handler order within one request.                                        *)

\* The handlers invoked so far, in the order their invocations started,
\* the lookup step left out.
Started == [i \in 1..Len(SelectSeq(req.log, LAMBDA e : e.h # NextFunc)) |->
               SelectSeq(req.log, LAMBDA e : e.h # NextFunc)[i].h]

IsMiddleware(h) == h \in GlobalArgs \cup {"m1", "m2"}

\* Every middleware invoked so far has called Next at most once / has
\* called Next exactly once.
NextAtMostOnce == \A i \in 1..Len(req.log) : IsMiddleware(req.log[i].h) => req.log[i].calls <= 1

NextExactlyOnce == \A i \in 1..Len(req.log) : IsMiddleware(req.log[i].h) => req.log[i].calls = 1

\* Registration order: the global middlewares as Use appended them, the
\* route's middlewares as AddRoute stored them, the route handler.
RegistrationOrder(route) ==
    [i \in 1..Len(GlobalMiddlewares) |-> GlobalMiddlewares[i].handler]
        \o [i \in 1..Len(route.Middlewares) |-> route.Middlewares[i].handler]
        \o <<route.Handler>>

\* C10: for a request that matches a route, while no middleware has called
\* Next more than once the handlers started so far are a prefix of the
\* registration order (globals in Use order, then the route's middlewares,
\* then the route handler), so none starts before all its predecessors
\* have; and once the request has finished with every middleware having
\* called Next exactly once, the handlers that ran are exactly that order.
C10_HandlersRunInRegistrationOrder ==
    LET lk == RouterMatchRoute(routes, req.method, req.path)
    IN (req.pc \in {"running", "done"} /\ lk.matched) =>
          /\ NextAtMostOnce => IsPrefixSeq(Started, RegistrationOrder(lk.route))
          /\ (req.pc = "done" /\ NextExactlyOnce) => Started = RegistrationOrder(lk.route)

\* A finished request that ran two global middlewares, two route
\* middlewares and the handler, each middleware calling Next once.
C10_Witness ==
    /\ req.pc = "done"
    /\ req.outcome = "served"
    /\ NextExactlyOnce
    /\ Len(GlobalMiddlewares) = 2
    /\ Started = <<GlobalMiddlewares[1].handler, GlobalMiddlewares[2].handler, "m1", "m2", "h1">>


-----------------------------------------------------------------------------
(* Short-circuit.                                                           *)

\* The invocation at log position i has returned.
Returned(i) == i \in 1..Len(req.log) /\ \A k \in 1..Len(req.stack) : req.stack[k] # i

\* C11: if a handler has returned without calling Next, and no handler
\* invoked before it has called Next more than once, then no handler of a
\* later chain position has been invoked: its invocation is the last of
\* the request's log (route lookup, route middlewares and the route handler
\* never start when the handler is a global middleware).
C11_NoNextNoLaterHandler ==
    \A i \in 1..Len(req.log) :
        (/\ Returned(i)
         /\ req.log[i].calls = 0
         /\ req.log[i].h # NextFunc
         /\ \A j \in 1..(i - 1) : req.log[j].calls <= 1)
            => Len(req.log) = i

\* C11 witness: the first of two global middlewares called Next once, the
\* second returned without calling it, the request is over and the lookup
\* step never ran although the request path has a route.
C11_Witness ==
    /\ req.pc = "done"
    /\ Len(GlobalMiddlewares) = 2
    /\ Len(req.log) = 2
    /\ req.log[1].calls = 1
    /\ req.log[2].calls = 0
    /\ RouterMatchRoute(routes, req.method, req.path).matched


-----------------------------------------------------------------------------
(* Next: the end of the chain, the cursor, and the error it returns.        *)

\* What the Next that invoked the handler returning in this step gave back
\* to its caller: the invocation now on top of the stack or, after the
\* last return, the caller of dispatch.
NextGaveBack ==
    IF req'.stack = <<>> THEN req'.result
    ELSE req'.log[req'.stack[Len(req'.stack)]].got

\* C12: a call of Next with the cursor at or past the end of the chain
\* invokes nothing and returns nil; any other call stores cursor+1 and
\* invokes the handler at the old cursor position; and when a handler
\* returns an error, the Next that invoked it returns that error wrapped
\* with the index of the failing chain position.
C12_NextWrapsErrorWithIndex ==
    [][/\ (/\ Running
           /\ Len(req'.stack) >= Len(req.stack)
           /\ req.log[Top].h # NextFunc) =>
              IF req.chain_index >= Len(req.chain_handlers)
              THEN /\ Len(req'.log) = Len(req.log)
                   /\ req'.stack = req.stack
                   /\ req'.log[Top].got = NilError
              ELSE /\ req'.chain_index = req.chain_index + 1
                   /\ Len(req'.log) = Len(req.log) + 1
                   /\ req'.log[Len(req'.log)].h = At(req.chain_handlers, req.chain_index)
       /\ (/\ Running
           /\ Len(req'.stack) < Len(req.stack)
           /\ req'.log[Top].ret # NilError) =>
              NextGaveBack = <<Layer("middleware", req.log[Top].idx)>> \o req'.log[Top].ret
      ]_vars


-----------------------------------------------------------------------------
(* The middleware sequence of one route under AddMiddleware and             *)
(* RemoveMiddleware.                                                        *)

MaxChainLen == 3

\* m1 and m1b are two func values of one function, m2 and m3 of two others.
ChainArgs == {"m1", "m1b", "m2", "m3"}

RECURSIVE SeqsUpTo(_, _)
SeqsUpTo(S, n) ==
    IF n = 0 THEN {<<>>}
    ELSE SeqsUpTo(S, n - 1) \cup {Append(q, x) : q \in SeqsUpTo(S, n - 1), x \in S}

RemovalArgs == SeqsUpTo(ChainArgs, 2) \ {<<>>}

\* One route GET '/a', registered with any chain of up to MaxChainLen
\* middlewares.
MiddlewareInit ==
    /\ \E chain \in SeqsUpTo(ChainArgs, MaxChainLen) :
           routes = AddRoute(EmptyRoutes, "GET", PathA, "h1", chain)
    /\ last = NoCall
    /\ nops = 0
    /\ match = MatchIdle
    /\ GlobalMiddlewares = <<>>
    /\ req = <<>>
    /\ groups = <<>>
    /\ staticRoutes = <<>>
    /\ NotFoundHandler = NilHandler
    /\ heap = <<>>
    /\ threads = <<>>

ChainAddMiddleware ==
    \E m \in ChainArgs :
        /\ nops < MaxOps
        /\ Len(Located(routes, "GET", PathA).Middlewares) < MaxChainLen
        /\ Call("AddMiddleware", "GET", PathA, <<>>, "", <<m>>, NoRenderer,
                AddMiddleware(routes, "GET", PathA, <<m>>))

ChainRemoveMiddleware ==
    \E middlewares \in RemovalArgs :
        /\ nops < MaxOps
        /\ Call("RemoveMiddleware", "GET", PathA, <<>>, "", middlewares, NoRenderer,
                RemoveMiddleware(routes, "GET", PathA, middlewares))

MiddlewareNext ==
    \/ ChainAddMiddleware
    \/ ChainRemoveMiddleware

SpecMiddleware == MiddlewareInit /\ [][MiddlewareNext]_vars

\* The positions of chain whose entry has the identity of no func of ms.
Kept(chain, ms) ==
    {i \in 1..Len(chain) : \A k \in 1..Len(ms) : Pointer(ms[k]) # chain[i].id}

\* The j-th smallest element of a set of positions.
NthOf(S, j) == CHOOSE i \in S : Cardinality({k \in S : k <= i}) = j

\* C13: RemoveMiddleware(method, path, ms...) on a registered route deletes
\* from its middleware sequence exactly the entries whose identity equals
\* that of one of ms; the entries left are the others, in their old
\* relative order; no other field of the route changes.
C13_RemoveMiddlewareKeepsOrder ==
    [][(last'.op = "RemoveMiddleware" /\ last'.found) =>
          LET old == Located(routes, last'.method, last'.path)
              new == Located(routes', last'.method, last'.path)
              keep == Kept(old.Middlewares, last'.middlewares)
          IN /\ Len(new.Middlewares) = Cardinality(keep)
             /\ \A j \in 1..Len(new.Middlewares) :
                    new.Middlewares[j] = old.Middlewares[NthOf(keep, j)]
             /\ new = [old EXCEPT !.Middlewares = new.Middlewares]]_vars

\* C13 witness: a removal by m1 took the entries of m1 and of m1b out of a
\* chain and left two other entries, m3 before m2.
C13_Witness ==
    /\ last.op = "RemoveMiddleware"
    /\ last.found
    /\ last.middlewares = <<"m1">>
    /\ nops = 2
    /\ Located(routes, "GET", PathA).Middlewares = <<wrapMiddleware("m3"), wrapMiddleware("m2")>>


-----------------------------------------------------------------------------
(* Groups. A Group holds a prefix, a middleware sequence and the list of   *)
(* its own routes; every operation goes through the Router's own API. The  *)
(* fields parent, added and edited are not in the code: they record which  *)
(* group a sub-group was made from (0 for a group made by Router.Group),   *)
(* the middlewares it was made with, and whether its middleware sequence   *)
(* has been replaced since.                                                 *)

MaxGroupOps == 5

MaxGroups == 2

PrefixA == <<"/", "a">>

PrefixAA == <<"/", "a", "/", "a">>

PrefixB == <<"/", "b">>

RelA == <<"/", "a">>

RelAA == <<"/", "a", "/", "a">>

RelX == <<"/", ":", "x">>

GroupPrefixes == {PrefixA, PrefixAA, PrefixB}

\* The routes added to groups: relative path, handler, own middlewares.
GroupRouteArgs == {<<RelA, "h1", <<"m3">>>>, <<RelAA, "h2", <<>>>>, <<RelX, "h3", <<>>>>}

RelPaths == {a[1] : a \in GroupRouteArgs}

\* Router.Group
RouterGroup(prefix, m) ==
    [prefix |-> prefix, middlewares |-> wrapAll(m), routes |-> <<>>, parent |-> 0,
     added |-> wrapAll(m), edited |-> FALSE]

\* Group.Group on the group g, which is groups[gi]
GroupGroup(g, gi, prefix, m) ==
    [prefix |-> g.prefix \o prefix, middlewares |-> g.middlewares \o wrapAll(m),
     routes |-> <<>>, parent |-> gi, added |-> wrapAll(m), edited |-> FALSE]

\* combinedMW: the handlers of the group's middlewares, then the route's
combinedMW(middlewares, routeMWs) ==
    [i \in 1..Len(middlewares) |-> middlewares[i].handler]
        \o [i \in 1..Len(routeMWs) |-> routeMWs[i].handler]

\* Group.AddRoute: the table and the group it leaves
GroupAddRoute(t, g, method, relPath, handler, m) ==
    LET gr == [method |-> ToUpper(method), relPath |-> relPath, handler |-> handler,
               routeMWs |-> wrapAll(m), effectivePath |-> g.prefix \o relPath]
    IN [t |-> AddRoute(t, method, gr.effectivePath, handler,
                       combinedMW(g.middlewares, gr.routeMWs)),
        g |-> [g EXCEPT !.routes = Append(g.routes, gr)]]

\* A prefix change that registers each route under its new path and
\* leaves the old entry in the table.
RECURSIVE RenameFromKeepOld(_, _, _, _)
RenameFromKeepOld(t, groutes, newPrefix, i) ==
    IF i > Len(groutes) THEN [t |-> t, routes |-> groutes]
    ELSE LET gr == groutes[i]
             newEffective == newPrefix \o gr.relPath
         IN RenameFromKeepOld(AddRoute(t, gr.method, newEffective, gr.handler, <<>>),
                              [groutes EXCEPT ![i].effectivePath = newEffective],
                              newPrefix, i + 1)

\* The loop of Group.ChangePrefix from route i on: one RenameRoute per
\* route, in the order of g.routes.
RECURSIVE RenameFrom(_, _, _, _)
RenameFrom(t, groutes, newPrefix, i) ==
    IF i > Len(groutes) THEN [t |-> t, routes |-> groutes]
    ELSE LET gr == groutes[i]
             newEffective == newPrefix \o gr.relPath
         IN RenameFrom(RenameRoute(t, gr.method, gr.effectivePath, newEffective),
                       [groutes EXCEPT ![i].effectivePath = newEffective],
                       newPrefix, i + 1)

GroupChangePrefix(t, g, newPrefix) ==
    IF g.prefix = newPrefix THEN [t |-> t, g |-> g]
    ELSE LET done == RenameFrom(t, g.routes, newPrefix, 1)
         IN [t |-> done.t, g |-> [g EXCEPT !.prefix = newPrefix, !.routes = done.routes]]

\* The loop of Group.UpdateMiddlewares from route i on: RemoveRoute, then
\* AddRoute with the new combined middlewares.
RECURSIVE ReRegisterFrom(_, _, _, _)
ReRegisterFrom(t, groutes, middlewares, i) ==
    IF i > Len(groutes) THEN t
    ELSE LET gr == groutes[i]
         IN ReRegisterFrom(AddRoute(RemoveRoute(t, gr.method, gr.effectivePath),
                                    gr.method, gr.effectivePath, gr.handler,
                                    combinedMW(middlewares, gr.routeMWs)),
                           groutes, middlewares, i + 1)

GroupUpdateMiddlewares(t, g, newMW) ==
    [t |-> ReRegisterFrom(t, g.routes, wrapAll(newMW), 1),
     g |-> [g EXCEPT !.middlewares = wrapAll(newMW), !.edited = TRUE]]

GroupAddMiddleware(t, g, mw) ==
    GroupUpdateMiddlewares(t, g, [i \in 1..Len(g.middlewares) |-> g.middlewares[i].handler] \o mw)

\* Group.RemoveMiddleware: keep the handlers whose code address is that of
\* no argument
RECURSIVE keepHandlers(_, _)
keepHandlers(middlewares, mw) ==
    IF middlewares = <<>> THEN <<>>
    ELSE (IF \E k \in 1..Len(mw) : Pointer(Head(middlewares).handler) = Pointer(mw[k])
          THEN <<>> ELSE <<Head(middlewares).handler>>)
         \o keepHandlers(Tail(middlewares), mw)

GroupRemoveMiddleware(t, g, mw) ==
    GroupUpdateMiddlewares(t, g, keepHandlers(g.middlewares, mw))

\* The first position of the group's list with that relPath, or 0.
RelIndex(groutes, relPath) ==
    IF \E i \in 1..Len(groutes) : groutes[i].relPath = relPath
    THEN CHOOSE i \in 1..Len(groutes) :
            /\ groutes[i].relPath = relPath
            /\ \A j \in 1..(i - 1) : groutes[j].relPath # relPath
    ELSE 0

GroupRemoveRoute(t, g, relPath) ==
    LET i == RelIndex(g.routes, relPath)
    IN IF i = 0 THEN [t |-> t, g |-> g]
       ELSE [t |-> RemoveRoute(t, g.routes[i].method, g.routes[i].effectivePath),
             g |-> [g EXCEPT !.routes = RemoveAt(g.routes, i)]]

\* Record a call on groups[gi] and install the table and the group it
\* leaves. found tells whether the target of the call was there.
GroupCall(op, gi, path, newPath, middlewares, found, post) ==
    /\ nops' = nops + 1
    /\ routes' = post.t
    /\ groups' = [groups EXCEPT ![gi] = post.g]
    /\ last' = [op |-> op, method |-> "get", path |-> path, newPath |-> newPath,
                handler |-> "", middlewares |-> middlewares, renderer |-> NoRenderer,
                found |-> found, group |-> gi]
    /\ UNCHANGED <<match, GlobalMiddlewares, req, staticRoutes, NotFoundHandler,
                   heap, threads>>

NoGroupCall ==
    [op |-> "none", method |-> "", path |-> <<>>, newPath |-> <<>>, handler |-> "",
     middlewares |-> <<>>, renderer |-> NoRenderer, found |-> FALSE, group |-> 0]

DoGroupGroup ==
    \E gi \in 1..Len(groups), prefix \in {PrefixA}, m \in {<<"m4">>} :
        /\ nops < MaxGroupOps
        /\ Len(groups) < MaxGroups
        /\ nops' = nops + 1
        /\ groups' = Append(groups, GroupGroup(groups[gi], gi, prefix, m))
        /\ last' = [NoGroupCall EXCEPT !.op = "Group.Group", !.path = prefix,
                                       !.middlewares = m, !.found = TRUE, !.group = gi]
        /\ UNCHANGED <<match, routes, GlobalMiddlewares, req, staticRoutes, NotFoundHandler,
                       heap, threads>>

DoGroupAddRoute ==
    \E gi \in 1..Len(groups), a \in GroupRouteArgs :
        /\ nops < MaxGroupOps
        /\ GroupCall("Group.AddRoute", gi, a[1], <<>>, a[3], TRUE,
                     GroupAddRoute(routes, groups[gi], "get", a[1], a[2], a[3]))

DoGroupChangePrefix ==
    \E gi \in 1..Len(groups), newPrefix \in GroupPrefixes :
        /\ nops < MaxGroupOps
        /\ GroupCall("Group.ChangePrefix", gi, groups[gi].prefix, newPrefix, <<>>, TRUE,
                     GroupChangePrefix(routes, groups[gi], newPrefix))

DoGroupUpdateMiddlewares ==
    \E gi \in 1..Len(groups), newMW \in {<<"m2">>} :
        /\ nops < MaxGroupOps
        /\ GroupCall("Group.UpdateMiddlewares", gi, <<>>, <<>>, newMW, TRUE,
                     GroupUpdateMiddlewares(routes, groups[gi], newMW))

DoGroupAddMiddleware ==
    \E gi \in 1..Len(groups), mw \in {<<"m1b">>} :
        /\ nops < MaxGroupOps
        /\ GroupCall("Group.AddMiddleware", gi, <<>>, <<>>, mw, TRUE,
                     GroupAddMiddleware(routes, groups[gi], mw))

DoGroupRemoveMiddleware ==
    \E gi \in 1..Len(groups), mw \in {<<"m1">>} :
        /\ nops < MaxGroupOps
        /\ GroupCall("Group.RemoveMiddleware", gi, <<>>, <<>>, mw, TRUE,
                     GroupRemoveMiddleware(routes, groups[gi], mw))

DoGroupRemoveRoute ==
    \E gi \in 1..Len(groups), relPath \in RelPaths :
        /\ nops < MaxGroupOps
        /\ GroupCall("Group.RemoveRoute", gi, relPath, <<>>, <<>>,
                     RelIndex(groups[gi].routes, relPath) # 0,
                     GroupRemoveRoute(routes, groups[gi], relPath))

\* The Router's own API, called on the effective path '/a/a'.
DirectPath == PrefixA \o RelA

DirectCall(op, newPath, handler, middlewares, renderer, post) ==
    /\ nops' = nops + 1
    /\ routes' = post
    /\ last' = [op |-> op, method |-> "get", path |-> DirectPath, newPath |-> newPath,
                handler |-> handler, middlewares |-> middlewares, renderer |-> renderer,
                found |-> Locate(routes, "get", DirectPath).found, group |-> 0]
    /\ UNCHANGED <<match, GlobalMiddlewares, req, groups, staticRoutes, NotFoundHandler,
                   heap, threads>>

DirectUpdateRoute ==
    /\ nops < MaxGroupOps
    /\ DirectCall("UpdateRoute", <<>>, "h4", <<>>, NoRenderer,
                  UpdateRoute(routes, "get", DirectPath, "h4"))

DirectRenameRoute ==
    /\ nops < MaxGroupOps
    /\ DirectCall("RenameRoute", PrefixB, "", <<>>, NoRenderer,
                  RenameRoute(routes, "get", DirectPath, PrefixB))

DirectAddMiddleware ==
    /\ nops < MaxGroupOps
    /\ DirectCall("AddMiddleware", <<>>, "", <<"m2">>, NoRenderer,
                  AddMiddleware(routes, "get", DirectPath, <<"m2">>))

DirectRemoveMiddleware ==
    /\ nops < MaxGroupOps
    /\ DirectCall("RemoveMiddleware", <<>>, "", <<"m3">>, NoRenderer,
                  RemoveMiddleware(routes, "get", DirectPath, <<"m3">>))

DirectSetRenderer ==
    /\ nops < MaxGroupOps
    /\ DirectCall("SetRenderer", <<>>, "", <<>>, "v1",
                  SetRenderer(routes, "get", DirectPath, "v1"))

DirectRemoveRoute ==
    /\ nops < MaxGroupOps
    /\ DirectCall("RemoveRoute", <<>>, "", <<>>, NoRenderer,
                  RemoveRoute(routes, "get", DirectPath))

\* router.New, then one Router.Group('/a', ...).
GroupInit ==
    /\ routes = EmptyRoutes
    /\ \E m \in {<<>>, <<"m1">>} : groups = <<RouterGroup(PrefixA, m)>>
    /\ last = NoGroupCall
    /\ nops = 0
    /\ match = MatchIdle
    /\ GlobalMiddlewares = <<>>
    /\ req = <<>>
    /\ staticRoutes = <<>>
    /\ NotFoundHandler = NilHandler
    /\ heap = <<>>
    /\ threads = <<>>

GroupNext ==
    \/ DoGroupGroup
    \/ DoGroupAddRoute
    \/ DoGroupChangePrefix
    \/ DoGroupUpdateMiddlewares
    \/ DoGroupAddMiddleware
    \/ DoGroupRemoveMiddleware
    \/ DoGroupRemoveRoute
    \/ DirectUpdateRoute
    \/ DirectRenameRoute
    \/ DirectAddMiddleware
    \/ DirectRemoveMiddleware
    \/ DirectSetRenderer
    \/ DirectRemoveRoute

SpecGroup == GroupInit /\ [][GroupNext]_vars


-----------------------------------------------------------------------------
(* Group claims.                                                            *)

\* The route that table t holds for the child gr of a group, if it holds
\* one with the child's handler at the child's effective path.
Registered(t, gr) ==
    /\ Locate(t, gr.method, gr.effectivePath).found
    /\ Located(t, gr.method, gr.effectivePath).Handler = gr.handler

PrefixChanged ==
    /\ last'.op = "Group.ChangePrefix"
    /\ last'.path # last'.newPath

\* C14 as stated: after ChangePrefix(P2), P2 # P, on a group with prefix P,
\* for every child route registered at P+R a lookup of P+R misses and a
\* lookup of P2+R hits a route with the handler and the middleware sequence
\* that was registered at P+R.
C14_OldPrefixMissesNewHits ==
    [][PrefixChanged =>
          \A i \in 1..Len(groups[last'.group].routes) :
              LET gr == groups[last'.group].routes[i]
                  was == Located(routes, gr.method, gr.effectivePath)
                  now == RouterMatchRoute(routes', gr.method, last'.newPath \o gr.relPath)
              IN Registered(routes, gr) =>
                    /\ ~RouterMatchRoute(routes', gr.method, gr.effectivePath).matched
                    /\ now.matched
                    /\ now.route.Handler = was.Handler
                    /\ now.route.Middlewares = was.Middlewares]_vars


\* Some group route has (method, path) as its current effective path.
IsLivePath(gs, method, path) ==
    \E gi \in 1..Len(gs) : \E i \in 1..Len(gs[gi].routes) :
        gs[gi].routes[i].method = method /\ gs[gi].routes[i].effectivePath = path

RECURSIVE AncestryMiddlewares(_, _)
AncestryMiddlewares(gs, gi) ==
    IF gs[gi].parent = 0 THEN gs[gi].middlewares
    ELSE AncestryMiddlewares(gs, gs[gi].parent) \o gs[gi].added

\* The route an AddRoute(method, path, ...) has just filed in table t.
JustFiled(t, method, path) ==
    IF IsParamPath(path) THEN t[method].params[Len(t[method].params)]
    ELSE t[method].exact[path]

\* C16: when Group.AddRoute is called on a group (one whose own sequence
\* has not been replaced since it was made), the middleware sequence
\* registered for the new route is the current middleware sequence of every
\* ancestor group, outermost first, then the group's own added middlewares,
\* then the route's own middlewares.
C16_RegisteredWithCurrentAncestorMiddlewares ==
    [][(last'.op = "Group.AddRoute" /\ ~groups[last'.group].edited) =>
          JustFiled(routes', "GET", groups[last'.group].prefix \o last'.path).Middlewares
              = AncestryMiddlewares(groups, last'.group) \o wrapAll(last'.middlewares)]_vars


\* The calls that look a target up: a route of the table by (method,
\* path), or a route of the group by its relative path.
TargetedOps ==
    {"UpdateRoute", "RenameRoute", "AddMiddleware", "RemoveMiddleware", "SetRenderer",
     "RemoveRoute", "Group.RemoveRoute"}

LookedUp ==
    /\ req.pc = "done"
    /\ \E i \in DOMAIN req.log : req.log[i].h = NextFunc /\ req.log[i].calls = 1

MatchedRequest == RouterMatchRoute(routes, req.method, req.path).matched

\* The file a static route resolves the path to.
TargetOf(sr, path) == Join(sr.Directory, Clean(TrimPrefix(path, sr.Prefix)))

\* The static route's prefix matches and its file exists: a regular file,
\* a directory that is listed, or a directory with an index document.
Servable(sr, path) ==
    /\ HasPrefix(path, sr.Prefix)
    /\ LET target == TargetOf(sr, path)
       IN IF IsDir(target)
          THEN sr.DirectoryListing \/ Exists(Join(target, IndexHTML))
          ELSE Exists(target)

\* The static route's prefix matches and the path resolves outside its
\* directory.
Escapes(sr, path) ==
    /\ HasPrefix(path, sr.Prefix)
    /\ ~HasPrefix(Abs(TargetOf(sr, path)), Abs(sr.Directory))

\* The index of the first static route in the set, 0 if there is none.
FirstOf(indices) ==
    IF indices = {} THEN 0 ELSE CHOOSE i \in indices : \A j \in indices : i <= j

FirstServable ==
    FirstOf({i \in DOMAIN staticRoutes : Servable(staticRoutes[i], req.path)})

FirstClaiming ==
    FirstOf({i \in DOMAIN staticRoutes :
                \/ Servable(staticRoutes[i], req.path)
                \/ Escapes(staticRoutes[i], req.path)})

StaticOutcomes == {"file", "listing", "readerror"}

FirstWithPrefix ==
    FirstOf({i \in DOMAIN staticRoutes : HasPrefix(req.path, staticRoutes[i].Prefix)})

\* The file the static route resolves the path to is not the directory
\* itself nor below it: the directory's segments do not start the file's.
LiesOutside(sr, path) ==
    ~IsPrefixSeq(Segments(Abs(sr.Directory)), Segments(Abs(TargetOf(sr, path))))

\* C23: when the file path that a static route obtains for an unmatched
\* request (prefix stripped, remainder cleaned and joined to the
\* directory) lies outside the directory, a sibling directory whose name
\* starts with the directory's name included, the answer is 403 Forbidden
\* and no file is read, whether or not the target exists.
C23_OutsideDirectoryIsForbidden ==
    (/\ LookedUp
     /\ ~MatchedRequest
     /\ FirstWithPrefix # 0
     /\ LiesOutside(staticRoutes[FirstWithPrefix], req.path))
    => /\ req.outcome = "forbidden"
       /\ req.by = FirstWithPrefix
       /\ req.file = <<>>

\* ---------------------------------------------------------------------
\* Claim C28: the exact map is tried before the parameter sequence
\* ---------------------------------------------------------------------

\* C28: when a route is filed in the exact map under exactly the request
\* path, the lookup returns that route, with nil params, whatever the
\* parameter sequence holds.
C28_ExactBeforeParams ==
    \A M \in DOMAIN routes : \A q \in RequestPaths :
        q \in DOMAIN routes[M].exact =>
            LET r == RouterMatchRoute(routes, M, q)
            IN /\ r.matched
               /\ r.route = routes[M].exact[q]
               /\ r.nilParams
               /\ r.params = EmptyMap

\* C28 witness: the literal route '/a' has just been added with its own
\* handler to a table in which a parameterized route, registered earlier,
\* matches '/a' as well.
C28_Witness ==
    /\ last.op = "AddRoute"
    /\ last.path = PathA
    /\ ToUpper(last.method) \in DOMAIN routes
    /\ PathA \in DOMAIN routes[ToUpper(last.method)].exact
    /\ \E i \in MatchingParams(routes, ToUpper(last.method), PathA) :
          routes[ToUpper(last.method)].params[i].Handler
              # routes[ToUpper(last.method)].exact[PathA].Handler

\* ---------------------------------------------------------------------
\* Claim C26: Group.UpdateMiddlewares re-registers every child route
\* ---------------------------------------------------------------------

GroupMiddlewareOps ==
    {"Group.UpdateMiddlewares", "Group.AddMiddleware", "Group.RemoveMiddleware"}

\* Every route of table t.
AllRoutes(t) ==
    UNION {{t[M].exact[k] : k \in DOMAIN t[M].exact}
               \cup {t[M].params[i] : i \in 1..Len(t[M].params)} : M \in DOMAIN t}

\* The routes of table t that are at the effective path of no child route
\* of group g.
OtherRoutes(t, g) ==
    {r \in AllRoutes(t) :
        ~\E i \in 1..Len(g.routes) :
            g.routes[i].method = r.Method /\ g.routes[i].effectivePath = r.Path}

\* The number of entries of table t that equal the route r.
CountOf(t, r) ==
    IF r.Method \notin DOMAIN t THEN 0
    ELSE Cardinality({k \in DOMAIN t[r.Method].exact : t[r.Method].exact[k] = r})
         + Cardinality({i \in 1..Len(t[r.Method].params) : t[r.Method].params[i] = r})

\* The route that AddRoute files for the child gr of a group whose
\* middlewares are mws.
ChildRoute(gr, mws) ==
    [Method |-> gr.method, Path |-> gr.effectivePath, Handler |-> gr.handler,
     Middlewares |-> mws \o gr.routeMWs, Renderer |-> NoRenderer]

\* The number of children of g, under the group middlewares mws, whose
\* route is r.
ChildrenAs(g, mws, r) ==
    Cardinality({i \in 1..Len(g.routes) : ChildRoute(g.routes[i], mws) = r})

\* The number of entries equal to r that table t holds besides those of
\* the children of g.
BesidesChildren(t, g, mws, r) ==
    IF CountOf(t, r) > ChildrenAs(g, mws, r)
    THEN CountOf(t, r) - ChildrenAs(g, mws, r) ELSE 0

\* The parameterized routes of either table at the effective path of a
\* child of g.
ParamRoutesAtChildPaths(t1, t2, g) ==
    {r \in AllRoutes(t1) \cup AllRoutes(t2) :
        /\ IsParamPath(r.Path)
        /\ \E i \in 1..Len(g.routes) :
              g.routes[i].method = r.Method /\ g.routes[i].effectivePath = r.Path}

\* C26 as stated: after Group.UpdateMiddlewares(L), and after
\* Group.AddMiddleware and Group.RemoveMiddleware with L the sequence they
\* compute, every child route of the group is in the route table at its
\* effective path with its own handler and the middleware sequence L
\* followed by the route's own middlewares, and no other route of the table
\* has been added or removed: the routes at other paths are the same, and
\* at a child's path the table holds, besides the children's routes, the
\* routes it held besides them before.
C26_UpdateMiddlewaresReRegisters ==
    [][last'.op \in GroupMiddlewareOps =>
          LET g == groups'[last'.group]
              old == groups[last'.group].middlewares
          IN /\ last'.op = "Group.UpdateMiddlewares" =>
                    g.middlewares = wrapAll(last'.middlewares)
             /\ \A i \in 1..Len(g.routes) :
                   CountOf(routes', ChildRoute(g.routes[i], g.middlewares)) >= 1
             /\ OtherRoutes(routes', g) = OtherRoutes(routes, g)
             /\ \A r \in ParamRoutesAtChildPaths(routes, routes', g) :
                   BesidesChildren(routes', g, g.middlewares, r)
                       = BesidesChildren(routes, g, old, r)]_vars

\* ---------------------------------------------------------------------
\* Claim C27: prefix and middleware changes reach the sub-groups' routes
\* ---------------------------------------------------------------------

\* The sub-groups made from group gi whose prefix and middlewares are
\* still what Group.Group derived them from: the parent's, then their own.
DerivedSubGroups(gs, gi) ==
    {si \in 1..Len(gs) :
        /\ gs[si].parent = gi
        /\ ~gs[si].edited
        /\ gs[si].prefix = gs[gi].prefix \o PrefixA
        /\ gs[si].middlewares = gs[gi].middlewares \o gs[si].added}

\* C27: after ChangePrefix(P2) on a group, every registered route of a
\* sub-group made from it with sub-prefix S resolves under P2 + S + its
\* relative path to its handler; after UpdateMiddlewares, AddMiddleware
\* or RemoveMiddleware on a group, every such route carries the parent's
\* new middleware sequence, then the sub-group's, then its own.
C27_ChangesCascadeToSubGroups ==
    [][last'.op \in GroupMiddlewareOps \cup {"Group.ChangePrefix"} =>
       \A si \in DerivedSubGroups(groups, last'.group) :
          \A i \in 1..Len(groups[si].routes) :
              LET gr == groups[si].routes[i]
              IN Registered(routes, gr) =>
                    /\ PrefixChanged =>
                          LET now == RouterMatchRoute(routes', gr.method,
                                          last'.newPath \o PrefixA \o gr.relPath)
                          IN now.matched /\ now.route.Handler = gr.handler
                    /\ last'.op \in GroupMiddlewareOps =>
                          Located(routes', gr.method, gr.effectivePath).Middlewares
                              = groups'[last'.group].middlewares \o groups[si].added
                                    \o gr.routeMWs]_vars

-----------------------------------------------------------------------------
(* Concurrent callers of AddRoute, MatchRoute and ClearRoutes. Router.routes
   is a sync.Map from method to *methodRoutes: heap.objects holds the
   methodRoutes objects allocated so far, each with its mu (writer, readers),
   and heap.routes maps a method to the address of its object. Each step of
   a caller is one access to shared memory. heap.cleared records that
   ClearRoutes has returned and nothing was stored since; heap.fault that
   the plain write of ClearRoutes met a concurrent access to Router.routes. *)

\* Number of concurrent callers.
MaxThreads == 3

Threads == 1..MaxThreads

AddPaths == {PathB, PathAB}

LookupPaths == {PathA, PathB}

\* &methodRoutes{exact: make(map[string]*Route), params: []*Route{}}
NewObject == [exact |-> EmptyMap, params |-> <<>>, writer |-> 0, readers |-> {}]

\* &Route{Method: method, Path: path, Handler: handler, Middlewares: mwEntries}
NewRoute(method, path, handler) ==
    [Method |-> method, Path |-> path, Handler |-> handler, Middlewares |-> <<>>,
     Renderer |-> NoRenderer]

HeapEmpty == [objects |-> <<>>, routes |-> EmptyMap, cleared |-> FALSE, fault |-> FALSE]

\* The table after AddRoute("GET", "/a", h1) alone.
HeapWithRoute ==
    [HeapEmpty EXCEPT !.objects = <<File(NewObject, NewRoute("GET", PathA, "h1"))>>,
                      !.routes = MapPut(EmptyMap, "GET", 1)]

\* What a caller that runs alone sees: method -> methodRoutes.
Table(h) ==
    [m \in DOMAIN h.routes |->
        [exact |-> h.objects[h.routes[m]].exact, params |-> h.objects[h.routes[m]].params]]

\* A caller: its call, its position, its arguments, the address it holds
\* in mr, whether its method had no partition when it was called, the
\* result of its lookup, its variadic arguments with the position of its
\* loop over them, the value it last read into a local variable, and, for
\* a worker serving a request, the request's fiber.Ctx c. For a router
\* call made by a middleware or a handler of a request: frame is the
\* position of dispatch the call was made from, reqPath the path of the
\* request, and calls the number of such calls made so far.
ThreadIdle ==
    [op |-> "none", pc |-> "idle", method |-> "", path |-> <<>>, mr |-> 0,
     fresh |-> FALSE, result |-> LookupMiss, args |-> <<>>, i |-> 0, local |-> <<>>,
     c |-> <<>>, frame |-> "none", reqPath |-> <<>>, calls |-> 0]

\* The positions at which a caller is about to access Router.routes
\* through the methods of sync.Map.
MapAccess == {"load", "store"}

CallAddRoute ==
    \E t \in Threads, path \in AddPaths :
        /\ ~heap.fault
        /\ threads[t].pc = "idle"
        /\ threads' = [threads EXCEPT ![t] =
                          [ThreadIdle EXCEPT !.op = "AddRoute", !.pc = "load",
                                             !.method = ToUpper("GET"), !.path = path,
                                             !.fresh = "GET" \notin DOMAIN heap.routes]]
        /\ UNCHANGED <<match, routes, last, nops, GlobalMiddlewares, req, groups,
                       staticRoutes, NotFoundHandler, heap>>

CallMatchRoute ==
    \E t \in Threads, path \in LookupPaths :
        /\ ~heap.fault
        /\ threads[t].pc = "idle"
        /\ threads' = [threads EXCEPT ![t] =
                          [ThreadIdle EXCEPT !.op = "MatchRoute", !.pc = "load",
                                             !.method = "GET", !.path = path]]
        /\ UNCHANGED <<match, routes, last, nops, GlobalMiddlewares, req, groups,
                       staticRoutes, NotFoundHandler, heap>>

CallClearRoutes ==
    \E t \in Threads :
        /\ ~heap.fault
        /\ threads[t].pc = "idle"
        /\ threads' = [threads EXCEPT ![t] =
                          [ThreadIdle EXCEPT !.op = "ClearRoutes", !.pc = "clear"]]
        /\ UNCHANGED <<match, routes, last, nops, GlobalMiddlewares, req, groups,
                       staticRoutes, NotFoundHandler, heap>>

\* AddRoute: if v, ok := dr.routes.Load(method); !ok { mr = &methodRoutes{...} }
\* else { mr = v.(*methodRoutes) }
AddRouteLoad ==
    \E t \in Threads :
        /\ ~heap.fault
        /\ threads[t].op = "AddRoute"
        /\ threads[t].pc = "load"
        /\ IF threads[t].method \in DOMAIN heap.routes
           THEN /\ threads' = [threads EXCEPT ![t].mr = heap.routes[threads[t].method],
                                              ![t].pc = "lock"]
                /\ UNCHANGED heap
           ELSE /\ heap' = [heap EXCEPT !.objects = Append(heap.objects, NewObject)]
                /\ threads' = [threads EXCEPT ![t].mr = Len(heap.objects) + 1,
                                              ![t].pc = "store"]
        /\ UNCHANGED <<match, routes, last, nops, GlobalMiddlewares, req, groups,
                       staticRoutes, NotFoundHandler>>

\* AddRoute: dr.routes.Store(method, mr)
AddRouteStore ==
    \E t \in Threads :
        /\ ~heap.fault
        /\ threads[t].op = "AddRoute"
        /\ threads[t].pc = "store"
        /\ heap' = [heap EXCEPT !.routes = MapPut(heap.routes, threads[t].method,
                                                   threads[t].mr),
                                !.cleared = FALSE]
        /\ threads' = [threads EXCEPT ![t].pc = "lock"]
        /\ UNCHANGED <<match, routes, last, nops, GlobalMiddlewares, req, groups,
                       staticRoutes, NotFoundHandler>>

\* AddRoute: mr.mu.Lock()
AddRouteLock ==
    \E t \in Threads :
        /\ ~heap.fault
        /\ threads[t].op = "AddRoute"
        /\ threads[t].pc = "lock"
        /\ heap.objects[threads[t].mr].writer = 0
        /\ heap.objects[threads[t].mr].readers = {}
        /\ heap' = [heap EXCEPT !.objects[threads[t].mr].writer = t]
        /\ threads' = [threads EXCEPT ![t].pc = "file"]
        /\ UNCHANGED <<match, routes, last, nops, GlobalMiddlewares, req, groups,
                       staticRoutes, NotFoundHandler>>

\* AddRoute: the route is filed in mr, and the deferred mr.mu.Unlock()
\* runs at the return.
AddRouteFile ==
    \E t \in Threads :
        /\ ~heap.fault
        /\ threads[t].op = "AddRoute"
        /\ threads[t].pc = "file"
        /\ heap' = [heap EXCEPT !.objects[threads[t].mr] =
                       [File(@, NewRoute(threads[t].method, threads[t].path, "h2"))
                          EXCEPT !.writer = 0]]
        /\ threads' = [threads EXCEPT ![t].pc = "done"]
        /\ UNCHANGED <<match, routes, last, nops, GlobalMiddlewares, req, groups,
                       staticRoutes, NotFoundHandler>>

\* The callers that look a route up: MatchRoute called by itself, and
\* dispatch, whose nextFunc calls it.
LookupOps == {"MatchRoute", "dispatch"}

\* Where a caller goes on when its lookup has returned: MatchRoute is
\* over; nextFunc serves the matched route (return route.Serve(c)), or
\* turns to the static routes.
AfterLookup(op, matched) ==
    IF op = "dispatch"
    THEN IF matched THEN "serve" ELSE "static"
    ELSE "done"

\* A read lock that is never released.
RUnlockNever(object, t) == object

\* mr.mu.RUnlock() by caller t
RUnlock(object, t) == [object EXCEPT !.readers = @ \ {t}]

\* MatchRoute: if v, ok := dr.routes.Load(method); ok { ... }; return nil, false, nil
MatchRouteLoad ==
    \E t \in Threads :
        /\ ~heap.fault
        /\ threads[t].op \in LookupOps
        /\ threads[t].pc = "load"
        /\ threads' = IF threads[t].method \in DOMAIN heap.routes
                      THEN [threads EXCEPT ![t].mr = heap.routes[threads[t].method],
                                           ![t].pc = "rlock"]
                      ELSE [threads EXCEPT ![t].pc = AfterLookup(threads[t].op, FALSE)]
        /\ UNCHANGED <<match, routes, last, nops, GlobalMiddlewares, req, groups,
                       staticRoutes, NotFoundHandler, heap>>

\* MatchRoute: mr.mu.RLock()
MatchRouteRLock ==
    \E t \in Threads :
        /\ ~heap.fault
        /\ threads[t].op \in LookupOps
        /\ threads[t].pc = "rlock"
        /\ heap.objects[threads[t].mr].writer = 0
        /\ heap' = [heap EXCEPT !.objects[threads[t].mr].readers = @ \cup {t}]
        /\ threads' = [threads EXCEPT ![t].pc = "read"]
        /\ UNCHANGED <<match, routes, last, nops, GlobalMiddlewares, req, groups,
                       staticRoutes, NotFoundHandler>>

\* MatchRoute: the exact map, then the params list, of mr; the deferred
\* mr.mu.RUnlock() runs at the return.
MatchRouteRead ==
    \E t \in Threads :
        /\ ~heap.fault
        /\ threads[t].op \in LookupOps
        /\ threads[t].pc = "read"
        /\ LET lk == RouterMatchRoute(
                         [m \in {threads[t].method} |-> heap.objects[threads[t].mr]],
                         threads[t].method, threads[t].path)
           IN threads' = [threads EXCEPT
                             ![t].result = lk,
                             ![t].pc = AfterLookup(threads[t].op, lk.matched)]
        /\ heap' = [heap EXCEPT !.objects[threads[t].mr] = RUnlock(@, t)]
        /\ UNCHANGED <<match, routes, last, nops, GlobalMiddlewares, req, groups,
                       staticRoutes, NotFoundHandler>>

\* ClearRoutes: dr.routes = sync.Map{}, with no lock held.
ClearRoutesAssign ==
    \E t \in Threads :
        /\ ~heap.fault
        /\ threads[t].op = "ClearRoutes"
        /\ threads[t].pc = "clear"
        /\ heap' = [heap EXCEPT !.routes = EmptyMap, !.cleared = TRUE]
        /\ threads' = [threads EXCEPT ![t].pc = "done"]
        /\ UNCHANGED <<match, routes, last, nops, GlobalMiddlewares, req, groups,
                       staticRoutes, NotFoundHandler>>

\* The plain write of ClearRoutes and another caller's Load or Store of
\* Router.routes are both about to happen and nothing orders them: a data
\* race. Besides the two orders of the accesses, which ClearRoutesAssign
\* and the other caller's step give, the program may be stopped or the
\* access may see a mixture of the two maps; both are recorded as a fault.
RoutesDataRace ==
    \E c \in Threads, t \in Threads :
        /\ ~heap.fault
        /\ c # t
        /\ threads[c].pc = "clear"
        /\ threads[t].pc \in MapAccess
        /\ heap' = [heap EXCEPT !.fault = TRUE]
        /\ UNCHANGED <<match, routes, last, nops, GlobalMiddlewares, req, groups,
                       staticRoutes, NotFoundHandler, threads>>

ConcurrentInit ==
    /\ heap \in {HeapEmpty, HeapWithRoute}
    /\ threads = [t \in Threads |-> ThreadIdle]
    /\ routes = EmptyRoutes
    /\ last = NoCall
    /\ nops = 0
    /\ match = MatchIdle
    /\ GlobalMiddlewares = <<>>
    /\ req = <<>>
    /\ groups = <<>>
    /\ staticRoutes = <<>>
    /\ NotFoundHandler = NilHandler

ConcurrentNext ==
    \/ CallAddRoute
    \/ CallMatchRoute
    \/ CallClearRoutes
    \/ AddRouteLoad
    \/ AddRouteStore
    \/ AddRouteLock
    \/ AddRouteFile
    \/ MatchRouteLoad
    \/ MatchRouteRLock
    \/ MatchRouteRead
    \/ ClearRoutesAssign
    \/ RoutesDataRace

SpecConcurrent == ConcurrentInit /\ [][ConcurrentNext]_vars

\* ---------------------------------------------------------------------
\* Claim C19: ClearRoutes is atomic
\* ---------------------------------------------------------------------

\* C19: once ClearRoutes has returned, and until an AddRoute stores a
\* partition, the table lists no route and every lookup misses; and the
\* write of ClearRoutes is ordered with every concurrent access to the
\* table, so that a concurrent lookup or AddRoute sees the table either
\* as it was before the clear or as it is after it.
C19_ClearRoutesAtomic ==
    /\ heap.cleared =>
          /\ DOMAIN Table(heap) = {}
          /\ \A path \in LookupPaths \cup AddPaths :
                ~RouterMatchRoute(Table(heap), "GET", path).matched
    /\ ~heap.fault

\* ---------------------------------------------------------------------
\* Claim C20: concurrent AddRoute calls for a method without a partition
\* ---------------------------------------------------------------------

\* C20: when two AddRoute calls for different paths of the same method,
\* which had no partition when either was called, have both returned, and
\* ClearRoutes was not called, both routes are registered.
C20_BothRoutesRegistered ==
    \A t1 \in Threads, t2 \in Threads :
        (/\ t1 # t2
         /\ \A t \in Threads : threads[t].op # "ClearRoutes"
         /\ threads[t1].op = "AddRoute" /\ threads[t2].op = "AddRoute"
         /\ threads[t1].pc = "done" /\ threads[t2].pc = "done"
         /\ threads[t1].fresh /\ threads[t2].fresh
         /\ threads[t1].method = threads[t2].method
         /\ threads[t1].path # threads[t2].path)
        => /\ RouterMatchRoute(Table(heap), threads[t1].method, threads[t1].path).matched
           /\ RouterMatchRoute(Table(heap), threads[t2].method, threads[t2].path).matched

-----------------------------------------------------------------------------
(* Concurrent callers of Use, Static and GetGlobalMiddlewareChain. The
   Router has no lock of its own: each call reads and writes the fields
   Router.GlobalMiddlewares and Router.staticRoutes directly, and each read
   and each write of a field is one step. *)

UseArgs == {<<"g1">>, <<"g2", "g3">>}

Quiescent == \A t \in Threads : threads[t].pc \in {"idle", "done"}

CallUse ==
    \E t \in Threads, mw \in UseArgs :
        /\ threads[t].pc = "idle"
        /\ threads' = [threads EXCEPT ![t] =
                          [ThreadIdle EXCEPT !.op = "Use", !.pc = "useRead",
                                             !.args = mw, !.i = 1]]
        /\ UNCHANGED <<match, routes, last, nops, GlobalMiddlewares, req, groups,
                       staticRoutes, NotFoundHandler, heap>>

\* Use: the read of dr.GlobalMiddlewares in
\* dr.GlobalMiddlewares = append(dr.GlobalMiddlewares, wrapMiddleware(m))
UseRead ==
    \E t \in Threads :
        /\ threads[t].pc = "useRead"
        /\ threads' = [threads EXCEPT ![t].local = GlobalMiddlewares,
                                      ![t].pc = "useWrite"]
        /\ UNCHANGED <<match, routes, last, nops, GlobalMiddlewares, req, groups,
                       staticRoutes, NotFoundHandler, heap>>

\* Use: the write of the appended slice, and the next round of the loop
UseWrite ==
    \E t \in Threads :
        /\ threads[t].pc = "useWrite"
        /\ GlobalMiddlewares' = Use(threads[t].local, <<threads[t].args[threads[t].i]>>)
        /\ threads' = [threads EXCEPT ![t].i = @ + 1,
                                      ![t].pc = IF threads[t].i < Len(threads[t].args)
                                                THEN "useRead" ELSE "done"]
        /\ UNCHANGED <<match, routes, last, nops, req, groups, staticRoutes,
                       NotFoundHandler, heap>>

CallStatic ==
    \E t \in Threads, prefix \in StaticPrefixes :
        /\ threads[t].pc = "idle"
        /\ threads' = [threads EXCEPT ![t] =
                          [ThreadIdle EXCEPT !.op = "Static", !.pc = "staticRead",
                                             !.path = prefix]]
        /\ UNCHANGED <<match, routes, last, nops, GlobalMiddlewares, req, groups,
                       staticRoutes, NotFoundHandler, heap>>

\* Static: the read of dr.staticRoutes in
\* dr.staticRoutes = append(dr.staticRoutes, Static{...})
StaticRead ==
    \E t \in Threads :
        /\ threads[t].pc = "staticRead"
        /\ threads' = [threads EXCEPT ![t].local = staticRoutes,
                                      ![t].pc = "staticWrite"]
        /\ UNCHANGED <<match, routes, last, nops, GlobalMiddlewares, req, groups,
                       staticRoutes, NotFoundHandler, heap>>

\* Static: the write of the appended slice
StaticWrite ==
    \E t \in Threads :
        /\ threads[t].pc = "staticWrite"
        /\ staticRoutes' = Static(threads[t].local, threads[t].path, DirD, FALSE)
        /\ threads' = [threads EXCEPT ![t].pc = "done"]
        /\ UNCHANGED <<match, routes, last, nops, GlobalMiddlewares, req, groups,
                       NotFoundHandler, heap>>

CallGetGlobalMiddlewareChain ==
    \E t \in Threads :
        /\ threads[t].pc = "idle"
        /\ threads' = [threads EXCEPT ![t] =
                          [ThreadIdle EXCEPT !.op = "GetGlobalMiddlewareChain",
                                             !.pc = "chainRead"]]
        /\ UNCHANGED <<match, routes, last, nops, GlobalMiddlewares, req, groups,
                       staticRoutes, NotFoundHandler, heap>>

\* dispatch: globalChain := dr.GetGlobalMiddlewareChain()
ChainRead ==
    \E t \in Threads :
        /\ threads[t].pc = "chainRead"
        /\ threads' = [threads EXCEPT
                          ![t].local = GetGlobalMiddlewareChain(GlobalMiddlewares),
                          ![t].pc = "done"]
        /\ UNCHANGED <<match, routes, last, nops, GlobalMiddlewares, req, groups,
                       staticRoutes, NotFoundHandler, heap>>

UseInit ==
    /\ threads = [t \in Threads |-> ThreadIdle]
    /\ heap = HeapEmpty
    /\ routes = EmptyRoutes
    /\ last = NoCall
    /\ nops = 0
    /\ match = MatchIdle
    /\ GlobalMiddlewares = <<>>
    /\ req = <<>>
    /\ groups = <<>>
    /\ staticRoutes = <<>>
    /\ NotFoundHandler = NilHandler

UseNext ==
    \/ CallUse
    \/ UseRead
    \/ UseWrite
    \/ CallStatic
    \/ StaticRead
    \/ StaticWrite
    \/ CallGetGlobalMiddlewareChain
    \/ ChainRead

SpecUse == UseInit /\ [][UseNext]_vars

\* ---------------------------------------------------------------------
\* Claim C21: the global middlewares and the static routes under
\* concurrent calls
\* ---------------------------------------------------------------------

InSeq(x, seq) == \E j \in 1..Len(seq) : seq[j] = x

\* C21: Use and Static are serialized by the Router's lock: when all
\* concurrent calls have returned, every middleware given to a Use call
\* is in the global list and every prefix given to a Static call is in
\* the static-route list; and the chain a dispatch reads holds all or
\* none of the middlewares of any one Use call.
C21_NoAppendLost ==
    /\ Quiescent =>
          \A t \in Threads :
              /\ threads[t].op = "Use" =>
                    \A k \in 1..Len(threads[t].args) :
                        InSeq(wrapMiddleware(threads[t].args[k]), GlobalMiddlewares)
              /\ threads[t].op = "Static" =>
                    \E j \in 1..Len(staticRoutes) :
                        staticRoutes[j].Prefix = threads[t].path
    /\ \A r \in Threads, u \in Threads :
          (/\ threads[r].op = "GetGlobalMiddlewareChain"
           /\ threads[r].pc = "done"
           /\ threads[u].op = "Use")
          => \A k \in 1..Len(threads[u].args) :
                InSeq(threads[u].args[k], threads[r].local)
                    <=> InSeq(threads[u].args[1], threads[r].local)

-----------------------------------------------------------------------------
(* Requests dispatched concurrently against a route table and a global
   middleware list that do not change. Worker k serves one request with its
   own fiber.Ctx, threads[k].c; the chain and the cursor are Locals of that
   context. Each step is one step of one request, as in the dispatch of a
   single request. *)

\* Number of requests in flight together.
MaxRequests == 2

Workers == 1..MaxRequests

\* The table of these runs: GET /a with m1 and h1, GET /b with m2 and h2.
RequestTable ==
    AddRoute(AddRoute(EmptyRoutes, "GET", PathA, "h1", <<"m1">>),
             "GET", PathB, "h2", <<"m2">>)

ConcurrentRequestPaths == {PathA, PathB, StaticMissing}

\* A cursor that all requests share.
SetLocalsShared(ts, k, r) ==
    [j \in DOMAIN ts |->
        IF j = k THEN [ts[j] EXCEPT !.c = r]
        ELSE [ts[j] EXCEPT !.c.chain_index = r.chain_index]]

\* c.Locals(...) on the context of worker k: the Locals of the other
\* contexts are other objects.
SetLocals(ts, k, r) == [ts EXCEPT ![k].c = r]

TopOf(r) == r.stack[Len(r.stack)]

RunningIn(r) == r.pc = "running" /\ r.stack # <<>>

RequestDispatch ==
    \E k \in Workers, path \in ConcurrentRequestPaths :
        /\ threads[k].c.pc = "idle"
        /\ threads' = SetLocals(threads, k,
                         InstallChain([threads[k].c EXCEPT !.pc = "running",
                                                           !.method = "GET",
                                                           !.path = path],
                                      DispatchChain(GlobalMiddlewares)))
        /\ UNCHANGED <<match, routes, last, nops, GlobalMiddlewares, req, groups,
                       staticRoutes, NotFoundHandler, heap>>

RequestCallsNext ==
    \E k \in Workers :
        LET r == threads[k].c
        IN /\ RunningIn(r)
           /\ r.log[TopOf(r)].h # NextFunc
           /\ r.log[TopOf(r)].calls < MaxNextCalls
           /\ threads' = SetLocals(threads, k,
                            NextCall([r EXCEPT !.log[TopOf(r)].calls = @ + 1,
                                               !.log[TopOf(r)].got = NilError]))
           /\ UNCHANGED <<match, routes, last, nops, GlobalMiddlewares, req, groups,
                          staticRoutes, NotFoundHandler, heap>>

RequestLookup ==
    \E k \in Workers :
        LET r == threads[k].c
        IN /\ RunningIn(r)
           /\ r.log[TopOf(r)].h = NextFunc
           /\ r.log[TopOf(r)].calls = 0
           /\ LET lk == RouterMatchRoute(routes, r.method, r.path)
                  r1 == [r EXCEPT !.log[TopOf(r)].calls = 1]
                  a == FallThrough(staticRoutes, NotFoundHandler, r.path)
              IN threads' = SetLocals(threads, k,
                     IF lk.matched
                     THEN InstallChain([r1 EXCEPT !.nilParams = lk.nilParams,
                                                  !.params = lk.params,
                                                  !.outcome = "served"],
                                       ServeChain(lk.route))
                     ELSE Pop([r1 EXCEPT !.outcome = a.outcome, !.by = a.by,
                                         !.file = a.file], NilError))
           /\ UNCHANGED <<match, routes, last, nops, GlobalMiddlewares, req, groups,
                          staticRoutes, NotFoundHandler, heap>>

RequestReturn ==
    \E k \in Workers :
        LET r == threads[k].c
        IN /\ RunningIn(r)
           /\ r.log[TopOf(r)].h # NextFunc
           /\ \E err \in {NilError, HandlerError, r.log[TopOf(r)].got} :
                 threads' = SetLocals(threads, k, Pop(r, err))
           /\ UNCHANGED <<match, routes, last, nops, GlobalMiddlewares, req, groups,
                          staticRoutes, NotFoundHandler, heap>>

RequestServeReturn ==
    \E k \in Workers :
        LET r == threads[k].c
        IN /\ RunningIn(r)
           /\ r.log[TopOf(r)].h = NextFunc
           /\ r.log[TopOf(r)].calls = 1
           /\ threads' = SetLocals(threads, k,
                            Pop(r, ServeReturnValue(r.log[TopOf(r)].got)))
           /\ UNCHANGED <<match, routes, last, nops, GlobalMiddlewares, req, groups,
                          staticRoutes, NotFoundHandler, heap>>

RequestsInit ==
    /\ threads = [k \in Workers |-> [ThreadIdle EXCEPT !.op = "dispatch", !.c = ReqIdle]]
    /\ routes = RequestTable
    /\ GlobalMiddlewares \in {<<>>, Use(<<>>, <<"g1">>)}
    /\ heap = HeapEmpty
    /\ last = NoCall
    /\ nops = 0
    /\ match = MatchIdle
    /\ req = <<>>
    /\ groups = <<>>
    /\ staticRoutes = <<>>
    /\ NotFoundHandler = NilHandler

RequestsNext ==
    \/ RequestDispatch
    \/ RequestCallsNext
    \/ RequestLookup
    \/ RequestReturn
    \/ RequestServeReturn

SpecRequests == RequestsInit /\ [][RequestsNext]_vars

\* ---------------------------------------------------------------------
\* Claim C22: concurrent requests run their own chains
\* ---------------------------------------------------------------------

\* The handlers a request has started, without the lookup step.
StartedIn(r) ==
    [i \in 1..Len(SelectSeq(r.log, LAMBDA e : e.h # NextFunc)) |->
        SelectSeq(r.log, LAMBDA e : e.h # NextFunc)[i].h]

NextAtMostOnceIn(r) ==
    \A i \in 1..Len(r.log) : IsMiddleware(r.log[i].h) => r.log[i].calls <= 1

NextExactlyOnceIn(r) ==
    \A i \in 1..Len(r.log) : IsMiddleware(r.log[i].h) => r.log[i].calls = 1

\* C22: with a route table that is not mutated, each of the requests in
\* flight together runs the chain of its own matched route in order
\* (while none of its middlewares has called Next more than once the
\* handlers it has started are a prefix of the global middlewares, its
\* route's middlewares and its route's handler, and all of them once it
\* has finished with every middleware having called Next exactly once);
\* and a step of one request changes the chain, the cursor and the log of
\* no other request.
C22_RequestsAreIndependent ==
    /\ [](\A k \in Workers :
             LET r == threads[k].c
                 lk == RouterMatchRoute(routes, r.method, r.path)
             IN (r.pc \in {"running", "done"} /\ lk.matched) =>
                   /\ NextAtMostOnceIn(r) =>
                         IsPrefixSeq(StartedIn(r), RegistrationOrder(lk.route))
                   /\ (r.pc = "done" /\ NextExactlyOnceIn(r)) =>
                         StartedIn(r) = RegistrationOrder(lk.route))
    /\ [][\A k \in Workers, j \in Workers :
             (j # k /\ threads'[k].c # threads[k].c) => threads'[j].c = threads[j].c]_vars

\* C22 witness: two requests for different routes are in flight together,
\* one inside its route's middleware and the other finished, each having
\* started the handlers of its own route only.
C22_Witness ==
    /\ threads[1].c.pc = "running"
    /\ threads[1].c.path = PathA
    /\ StartedIn(threads[1].c) = <<"g1", "m1">>
    /\ threads[2].c.pc = "done"
    /\ threads[2].c.path = PathB
    /\ StartedIn(threads[2].c) = <<"g1", "m2", "h2">>
    /\ threads[1].c.chain_index # threads[2].c.chain_index

-----------------------------------------------------------------------------
(* A request in flight while the router is mutated: the steps of the
   request are those of the dispatch of a single request, and between any
   two of them Use, UpdateGlobalMiddleware, AddMiddleware, RemoveMiddleware,
   UpdateRoute and RemoveRoute may run on the request's route. *)

\* UpdateGlobalMiddleware: dr.GlobalMiddlewares = newChain
UpdateGlobalMiddleware(newMW) == wrapAll(newMW)

InFlightUse ==
    /\ nops < MaxOps
    /\ nops' = nops + 1
    /\ GlobalMiddlewares' = Use(GlobalMiddlewares, <<"g2">>)
    /\ UNCHANGED <<match, routes, last, req, groups, staticRoutes, NotFoundHandler,
                   heap, threads>>

InFlightUpdateGlobalMiddleware ==
    /\ nops < MaxOps
    /\ nops' = nops + 1
    /\ GlobalMiddlewares' = UpdateGlobalMiddleware(<<"g3">>)
    /\ UNCHANGED <<match, routes, last, req, groups, staticRoutes, NotFoundHandler,
                   heap, threads>>

InFlightAddMiddleware ==
    /\ nops < MaxOps
    /\ Call("AddMiddleware", "GET", PathA, <<>>, "", <<"m2">>, NoRenderer,
            AddMiddleware(routes, "GET", PathA, <<"m2">>))

InFlightRemoveMiddleware ==
    /\ nops < MaxOps
    /\ Call("RemoveMiddleware", "GET", PathA, <<>>, "", <<"m1">>, NoRenderer,
            RemoveMiddleware(routes, "GET", PathA, <<"m1">>))

InFlightUpdateRoute ==
    /\ nops < MaxOps
    /\ Call("UpdateRoute", "GET", PathA, <<>>, "h2", <<>>, NoRenderer,
            UpdateRoute(routes, "GET", PathA, "h2"))

InFlightRemoveRoute ==
    /\ nops < MaxOps
    /\ Call("RemoveRoute", "GET", PathA, <<>>, "", <<>>, NoRenderer,
            RemoveRoute(routes, "GET", PathA))

InFlightInit ==
    /\ routes = AddRoute(EmptyRoutes, "GET", PathA, "h1", <<"m1">>)
    /\ GlobalMiddlewares = Use(<<>>, <<"g1">>)
    /\ req = ReqIdle
    /\ last = NoCall
    /\ nops = 0
    /\ match = MatchIdle
    /\ groups = <<>>
    /\ staticRoutes = <<>>
    /\ NotFoundHandler = NilHandler
    /\ heap = <<>>
    /\ threads = <<>>

InFlightNext ==
    \/ Dispatch
    \/ HandlerCallsNext
    \/ RouteLookup
    \/ HandlerReturn
    \/ ServeReturn
    \/ InFlightUse
    \/ InFlightUpdateGlobalMiddleware
    \/ InFlightAddMiddleware
    \/ InFlightRemoveMiddleware
    \/ InFlightUpdateRoute
    \/ InFlightRemoveRoute

SpecInFlight == InFlightInit /\ [][InFlightNext]_vars

\* ---------------------------------------------------------------------
\* Claim C29: the chain of an in-flight request is a private copy
\* ---------------------------------------------------------------------

\* C29: a step that changes the global middleware list or the route table
\* leaves the chain, the cursor and the log of the request in flight as
\* they are; the chain of the request is the global middlewares as they
\* are when dispatch starts, then, from the step in which Route.Serve
\* builds it, the middlewares and the handler of the matched route as they
\* are in that step, and changes in no other step; and every handler the
\* request invokes is the one its chain holds at its cursor.
C29_InFlightChainIsPrivate ==
    [][/\ (GlobalMiddlewares' # GlobalMiddlewares \/ routes' # routes) => req' = req
       /\ req'.chain_handlers =
             IF req.pc = "idle" /\ req'.pc = "running"
             THEN DispatchChain(GlobalMiddlewares)
             ELSE IF req.outcome # "served" /\ req'.outcome = "served"
                  THEN ServeChain(RouterMatchRoute(routes, req.method, req.path).route)
                  ELSE req.chain_handlers
       /\ Len(req'.log) > Len(req.log) =>
             /\ Len(req'.log) = Len(req.log) + 1
             /\ req'.chain_index >= 1
             /\ req'.log[Len(req'.log)].h
                   = At(req'.chain_handlers, req'.chain_index - 1)]_vars

\* C29 witness: the request has run g1 and m1 and is inside h1, the chain
\* it was given, while by now the global list is [g3] alone and its route
\* is no longer in the table.
C29_Witness ==
    /\ req.pc = "running"
    /\ Started = <<"g1", "m1", "h1">>
    /\ GlobalMiddlewares = UpdateGlobalMiddleware(<<"g3">>)
    /\ ~RouterMatchRoute(routes, "GET", PathA).matched

-----------------------------------------------------------------------------
(* Dispatch step by step, next to concurrent AddRoute calls: the lookup of
   nextFunc is Router.MatchRoute, and after a miss nextFunc resolves the
   path against the static routes and reads the file system. *)

CallDispatch ==
    \E t \in Threads, path \in {PathA, StaticFile, StaticMissing} :
        /\ ~heap.fault
        /\ threads[t].pc = "idle"
        /\ threads' = [threads EXCEPT ![t] =
                          [ThreadIdle EXCEPT !.op = "dispatch", !.pc = "load",
                                             !.method = "GET", !.path = path]]
        /\ UNCHANGED <<match, routes, last, nops, GlobalMiddlewares, req, groups,
                       staticRoutes, NotFoundHandler, heap>>

\* nextFunc: the loop over the static routes, with its os.Stat and
\* os.ReadFile, and the not-found steps
DispatchStatic ==
    \E t \in Threads :
        /\ ~heap.fault
        /\ threads[t].pc = "static"
        /\ threads' = [threads EXCEPT
                          ![t].local = FallThrough(staticRoutes, NotFoundHandler,
                                                   threads[t].path),
                          ![t].pc = "done"]
        /\ UNCHANGED <<match, routes, last, nops, GlobalMiddlewares, req, groups,
                       staticRoutes, NotFoundHandler, heap>>

\* route.Serve: the route's chain and handler run to their end and
\* dispatch returns
ServeReturns ==
    \E t \in Threads :
        /\ ~heap.fault
        /\ threads[t].op = "dispatch"
        /\ threads[t].pc = "serve"
        /\ threads' = [threads EXCEPT ![t].pc = "done"]
        /\ UNCHANGED <<match, routes, last, nops, GlobalMiddlewares, req, groups,
                       staticRoutes, NotFoundHandler, heap>>

ConcurrentDispatchInit ==
    /\ heap \in {HeapEmpty, HeapWithRoute}
    /\ threads = [t \in Threads |-> ThreadIdle]
    /\ staticRoutes = Static(<<>>, StaticPrefix, DirD, FALSE)
    /\ routes = EmptyRoutes
    /\ last = NoCall
    /\ nops = 0
    /\ match = MatchIdle
    /\ GlobalMiddlewares = <<>>
    /\ req = <<>>
    /\ groups = <<>>
    /\ NotFoundHandler = NilHandler

ConcurrentDispatchNext ==
    \/ CallDispatch
    \/ MatchRouteLoad
    \/ MatchRouteRLock
    \/ MatchRouteRead
    \/ DispatchStatic
    \/ ServeReturns
    \/ CallAddRoute
    \/ AddRouteLoad
    \/ AddRouteStore
    \/ AddRouteLock
    \/ AddRouteFile

SpecConcurrentDispatch == ConcurrentDispatchInit /\ [][ConcurrentDispatchNext]_vars

\* ---------------------------------------------------------------------
\* Claim C30: no route-table lock is held during static resolution
\* ---------------------------------------------------------------------

\* Caller t holds the lock of some methodRoutes object, shared or
\* exclusive.
HoldsLock(t) ==
    \E o \in 1..Len(heap.objects) :
        t \in heap.objects[o].readers \/ heap.objects[o].writer = t

\* C30: a dispatch that is about to resolve the path against the static
\* routes and read the file system holds no route-table lock.
C30_NoLockDuringStaticRead ==
    \A t \in Threads : threads[t].pc = "static" => ~HoldsLock(t)

\* C30 witness: a dispatch that took and released the shared lock of the
\* GET partition is at its static resolution while an AddRoute holds the
\* exclusive lock of that partition.
C30_Witness ==
    \E t \in Threads, u \in Threads :
        /\ threads[t].pc = "static"
        /\ threads[t].mr # 0
        /\ threads[u].pc = "file"
        /\ threads[u].mr = threads[t].mr
        /\ heap.objects[threads[u].mr].writer = u

-----------------------------------------------------------------------------
(* Group calls step by step.  Group.UpdateMiddlewares and Group.ChangePrefix
   loop over g.routes and call the router once or twice per child route;
   each of these router calls holds mr.mu for its whole body, and the loop
   holds no lock between them.  threads[1] is the caller of the group
   methods; a lookup by another caller can run between any two of its
   router calls.  The caller's local field remembers the middlewares, or
   the prefix, that the group had when the call started. *)

\* The number of group calls made.
MaxSteppedCalls == 2

Stepper == 1

TheGroup == 1

\* The groups under test: prefix '/a', one or two child routes.
SteppedGroups ==
    {GroupAddRoute(EmptyRoutes, RouterGroup(PrefixA, m), "get", a[1], a[2], a[3])
        : m \in {<<>>, <<"m1">>}, a \in GroupRouteArgs}
    \cup
    {LET one == GroupAddRoute(EmptyRoutes, RouterGroup(PrefixA, m), "get",
                              ab[1][1], ab[1][2], ab[1][3])
     IN GroupAddRoute(one.t, one.g, "get", ab[2][1], ab[2][2], ab[2][3])
        : m \in {<<>>, <<"m1">>},
          ab \in {x \in GroupRouteArgs \X GroupRouteArgs : x[1] # x[2]}}

\* The paths looked up: every prefix with every relative path.
SteppedLookupPaths == {p \o r : p \in GroupPrefixes, r \in RelPaths}

NoLookup == [op |-> "none", method |-> "", path |-> <<>>, result |-> LookupMiss]

\* The handlers of a list of middleware entries.
handlersOf(middlewares) == [i \in 1..Len(middlewares) |-> middlewares[i].handler]

\* Where the loop over g.routes goes after child i.
LoopFrom(g, i, body) == IF i > Len(g.routes) THEN "idle" ELSE body

\* Group.UpdateMiddlewares, and Group.AddMiddleware and
\* Group.RemoveMiddleware up to their call of it: g.middlewares = newWrapped
StartUpdateMiddlewares(op, newMW) ==
    /\ nops' = nops + 1
    /\ groups' = [groups EXCEPT ![TheGroup].middlewares = wrapAll(newMW),
                                ![TheGroup].edited = TRUE]
    /\ threads' = [threads EXCEPT ![Stepper] =
                      [ThreadIdle EXCEPT !.op = op, !.args = newMW, !.i = 1,
                                         !.local = groups[TheGroup].middlewares,
                                         !.pc = LoopFrom(groups[TheGroup], 1, "remove")]]
    /\ UNCHANGED <<match, routes, last, GlobalMiddlewares, req, staticRoutes,
                   NotFoundHandler, heap>>

CallGroupUpdateMiddlewares ==
    \E newMW \in {<<"m2">>} :
        /\ nops < MaxSteppedCalls
        /\ threads[Stepper].pc = "idle"
        /\ StartUpdateMiddlewares("Group.UpdateMiddlewares", newMW)

CallGroupAddMiddleware ==
    \E mw \in {<<"m1b">>} :
        /\ nops < MaxSteppedCalls
        /\ threads[Stepper].pc = "idle"
        /\ StartUpdateMiddlewares("Group.AddMiddleware",
                                  handlersOf(groups[TheGroup].middlewares) \o mw)

CallGroupRemoveMiddleware ==
    \E mw \in {<<"m1">>} :
        /\ nops < MaxSteppedCalls
        /\ threads[Stepper].pc = "idle"
        /\ StartUpdateMiddlewares("Group.RemoveMiddleware",
                                  keepHandlers(groups[TheGroup].middlewares, mw))

\* UpdateMiddlewares: g.router.RemoveRoute(gr.method, gr.effectivePath)
UpdateMiddlewaresRemove ==
    /\ threads[Stepper].pc = "remove"
    /\ LET gr == groups[TheGroup].routes[threads[Stepper].i]
       IN routes' = RemoveRoute(routes, gr.method, gr.effectivePath)
    /\ threads' = [threads EXCEPT ![Stepper].pc = "add"]
    /\ UNCHANGED <<match, last, nops, GlobalMiddlewares, req, groups, staticRoutes,
                   NotFoundHandler, heap>>

\* UpdateMiddlewares: g.router.AddRoute(gr.method, gr.effectivePath,
\* gr.handler, combinedMW...), and on to the next child
UpdateMiddlewaresAdd ==
    /\ threads[Stepper].pc = "add"
    /\ LET gr == groups[TheGroup].routes[threads[Stepper].i]
       IN routes' = AddRoute(routes, gr.method, gr.effectivePath, gr.handler,
                             combinedMW(groups[TheGroup].middlewares, gr.routeMWs))
    /\ threads' = [threads EXCEPT
                      ![Stepper].i = @ + 1,
                      ![Stepper].pc = LoopFrom(groups[TheGroup], threads[Stepper].i + 1,
                                               "remove")]
    /\ UNCHANGED <<match, last, nops, GlobalMiddlewares, req, groups, staticRoutes,
                   NotFoundHandler, heap>>

\* Group.ChangePrefix up to its loop: the early return, g.prefix = newPrefix
CallGroupChangePrefix ==
    \E newPrefix \in GroupPrefixes :
        /\ nops < MaxSteppedCalls
        /\ threads[Stepper].pc = "idle"
        /\ nops' = nops + 1
        /\ IF groups[TheGroup].prefix = newPrefix
           THEN UNCHANGED <<groups, threads>>
           ELSE /\ groups' = [groups EXCEPT ![TheGroup].prefix = newPrefix]
                /\ threads' = [threads EXCEPT ![Stepper] =
                                  [ThreadIdle EXCEPT
                                      !.op = "Group.ChangePrefix", !.path = newPrefix,
                                      !.i = 1, !.local = groups[TheGroup].prefix,
                                      !.pc = LoopFrom(groups[TheGroup], 1, "rename")]]
        /\ UNCHANGED <<match, routes, last, GlobalMiddlewares, req, staticRoutes,
                       NotFoundHandler, heap>>

\* ChangePrefix: g.router.RenameRoute(gr.method, oldEffective, newEffective);
\* gr.effectivePath = newEffective, and on to the next child
ChangePrefixRename ==
    /\ threads[Stepper].pc = "rename"
    /\ LET i == threads[Stepper].i
           gr == groups[TheGroup].routes[i]
           newEffective == groups[TheGroup].prefix \o gr.relPath
       IN /\ routes' = RenameRoute(routes, gr.method, gr.effectivePath, newEffective)
          /\ groups' = [groups EXCEPT ![TheGroup].routes[i].effectivePath = newEffective]
          /\ threads' = [threads EXCEPT
                            ![Stepper].i = i + 1,
                            ![Stepper].pc = LoopFrom(groups[TheGroup], i + 1, "rename")]
    /\ UNCHANGED <<match, last, nops, GlobalMiddlewares, req, staticRoutes,
                   NotFoundHandler, heap>>

\* Router.MatchRoute by another caller, under mr.mu.RLock()
SteppedLookup ==
    \E path \in SteppedLookupPaths :
        /\ last' = [op |-> "MatchRoute", method |-> "GET", path |-> path,
                    result |-> RouterMatchRoute(routes, "GET", path)]
        /\ UNCHANGED <<match, routes, nops, GlobalMiddlewares, req, groups, staticRoutes,
                       NotFoundHandler, heap, threads>>

GroupStepsInit ==
    /\ \E made \in SteppedGroups :
          /\ routes = made.t
          /\ groups = <<made.g>>
    /\ threads = <<ThreadIdle>>
    /\ last = NoLookup
    /\ nops = 0
    /\ match = MatchIdle
    /\ GlobalMiddlewares = <<>>
    /\ req = <<>>
    /\ staticRoutes = <<>>
    /\ NotFoundHandler = NilHandler
    /\ heap = <<>>

GroupStepsNext ==
    \/ CallGroupUpdateMiddlewares
    \/ CallGroupAddMiddleware
    \/ CallGroupRemoveMiddleware
    \/ UpdateMiddlewaresRemove
    \/ UpdateMiddlewaresAdd
    \/ CallGroupChangePrefix
    \/ ChangePrefixRename
    \/ SteppedLookup

SpecGroupSteps == GroupStepsInit /\ [][GroupStepsNext]_vars

\* ---------------------------------------------------------------------
\* Claim C24: a lookup during Group.UpdateMiddlewares never misses
\* ---------------------------------------------------------------------

\* A middleware update of the group is under way.
UpdatingMiddlewares ==
    /\ threads[Stepper].op \in GroupMiddlewareOps
    /\ threads[Stepper].pc # "idle"

\* The route that AddRoute files for the child gr under the group
\* middlewares mws.
FiledFor(gr, mws) ==
    Located(AddRoute(EmptyRoutes, gr.method, gr.effectivePath, gr.handler,
                     combinedMW(mws, gr.routeMWs)),
            gr.method, gr.effectivePath)

\* C24 as stated: while Group.UpdateMiddlewares, Group.AddMiddleware or
\* Group.RemoveMiddleware runs, a lookup of a child route's effective path
\* matches, and the route it returns carries the child's handler with
\* either the old or the new middleware sequence.
C24_LookupNeverMisses ==
    [][(last'.op = "MatchRoute" /\ last' # last /\ UpdatingMiddlewares) =>
          \A i \in 1..Len(groups[TheGroup].routes) :
              LET gr == groups[TheGroup].routes[i]
              IN last'.path = gr.effectivePath =>
                    /\ last'.result.matched
                    /\ last'.result.route.Handler = gr.handler
                    /\ last'.result.route.Middlewares
                          \in {FiledFor(gr, threads[Stepper].local).Middlewares,
                               FiledFor(gr, groups[TheGroup].middlewares).Middlewares}]_vars

\* ---------------------------------------------------------------------
\* Claim C25: during Group.ChangePrefix each child resolves under exactly
\* one of its old and its new path
\* ---------------------------------------------------------------------

\* A lookup of path in table t returns the route of the child gr.
ResolvesTo(t, gr, path) ==
    LET lk == RouterMatchRoute(t, gr.method, path)
    IN lk.matched /\ lk.route.Handler = gr.handler

\* C25 as stated: at every moment of a Group.ChangePrefix from prefix P to
\* prefix P2, every child route with relative path R is resolvable under
\* exactly one of P+R and P2+R.
C25_ExactlyOnePathResolves ==
    (threads[Stepper].op = "Group.ChangePrefix" /\ threads[Stepper].pc = "rename") =>
        \A i \in 1..Len(groups[TheGroup].routes) :
            LET gr == groups[TheGroup].routes[i]
            IN ResolvesTo(routes, gr, threads[Stepper].local \o gr.relPath)
                  # ResolvesTo(routes, gr, groups[TheGroup].prefix \o gr.relPath)

-----------------------------------------------------------------------------
\* ---------------------------------------------------------------------
\* Claim C31: the in-place edits change one field of one route
\* ---------------------------------------------------------------------

\* The field of a route that each in-place edit assigns.
EditedField ==
    [op \in {"UpdateRoute", "AddMiddleware", "RemoveMiddleware", "SetRenderer"} |->
        CASE op = "UpdateRoute" -> "Handler"
          [] op = "SetRenderer" -> "Renderer"
          [] OTHER -> "Middlewares"]

RouteFields == {"Method", "Path", "Handler", "Middlewares", "Renderer"}

\* Routes a and b agree in every field but f.
SameBut(a, b, f) == \A x \in RouteFields \ {f} : a[x] = b[x]

\* C31: UpdateRoute, AddMiddleware, RemoveMiddleware and SetRenderer on a
\* registered route leave every partition with the same exact keys and a
\* parameter sequence of the same length; the route they located keeps its
\* place and every field but the one the call assigns; every other route
\* is the same.
C31_EditsChangeOneField ==
    [][(last'.op \in DOMAIN EditedField /\ last'.found) =>
          LET at == Locate(routes, last'.method, last'.path)
              T == ToUpper(last'.method)
          IN /\ DOMAIN routes' = DOMAIN routes
             /\ \A M \in DOMAIN routes :
                   /\ DOMAIN routes'[M].exact = DOMAIN routes[M].exact
                   /\ Len(routes'[M].params) = Len(routes[M].params)
                   /\ \A k \in DOMAIN routes[M].exact :
                         IF M = T /\ at.exact /\ k = last'.path
                         THEN SameBut(routes'[M].exact[k], routes[M].exact[k],
                                      EditedField[last'.op])
                         ELSE routes'[M].exact[k] = routes[M].exact[k]
                   /\ \A i \in 1..Len(routes[M].params) :
                         IF M = T /\ ~at.exact /\ i = at.index
                         THEN SameBut(routes'[M].params[i], routes[M].params[i],
                                      EditedField[last'.op])
                         ELSE routes'[M].params[i] = routes[M].params[i]]_vars

\* C31 witness: SetRenderer has been called on a parameterized route that
\* carries a middleware, in a table that holds another route.
C31_Witness ==
    /\ last.op = "SetRenderer"
    /\ last.found
    /\ IsParamPath(last.path)
    /\ Located(routes, last.method, last.path).Renderer = last.renderer
    /\ Located(routes, last.method, last.path).Middlewares # <<>>
    /\ Cardinality(AllRoutes(routes)) >= 2

-----------------------------------------------------------------------------
\* ---------------------------------------------------------------------
\* Claim C32: utils.MatchRoute terminates
\* ---------------------------------------------------------------------

\* The matcher as a sequential function: a call that has not returned
\* takes its next step.
SpecMatchFair == MatchInit /\ [][MatchNext]_vars /\ WF_vars(MatchNext)

\* C32: both cursors stay within their strings; an iteration of the main
\* loop either returns or moves neither cursor backwards and at least one
\* of them forwards; and every call returns.
C32_MatchRouteTerminates ==
    /\ [](/\ 0 <= match.pi /\ match.pi <= Len(match.pattern)
          /\ 0 <= match.ti /\ match.ti <= Len(match.path))
    /\ [][match.pc = "loop" =>
             \/ match'.pc = "done"
             \/ /\ match'.pi >= match.pi
                /\ match'.ti >= match.ti
                /\ match'.pi + match'.ti > match.pi + match.ti]_vars
    /\ <>(match.pc = "done")

\* C32 witness: a call on a pattern of full length with a parameter
\* segment has returned a match with both cursors at the ends.
C32_Witness ==
    /\ match.pc = "done"
    /\ match.result.matched
    /\ Len(match.pattern) = MaxPatLen
    /\ HasChar(match.pattern, ":")
    /\ Len(match.path) >= 3
    /\ match.pi = Len(match.pattern)
    /\ match.ti = Len(match.path)

-----------------------------------------------------------------------------
\* ---------------------------------------------------------------------
\* Claim C33: every chain position is invoked at most once per request
\* ---------------------------------------------------------------------

\* The chain in the request's Locals is a route's: Route.Serve has
\* installed it over dispatch's chain, which ends with nextFunc.
RouteChainInstalled ==
    /\ req.chain_handlers # <<>>
    /\ \A i \in 1..Len(req.chain_handlers) : req.chain_handlers[i] # NextFunc

\* The handlers of dispatch's chain: the global middlewares and nextFunc.
IsGlobalPosition(h) == h \in GlobalArgs \cup {NextFunc}

\* C33: within one request no two invocations are of the same position of
\* the same chain (the global chain holds g-handlers and nextFunc, a route
\* chain m-handlers and the route handler, so the handler tells the
\* chain); the stored index never decreases while the stored chain stays
\* the same; and once a route chain is installed it stays installed and no
\* position of the global chain is invoked any more.
C33_EachPositionAtMostOnce ==
    /\ [](\A i \in 1..Len(req.log) : \A j \in 1..Len(req.log) :
             (/\ req.log[i].idx = req.log[j].idx
              /\ IsGlobalPosition(req.log[i].h) = IsGlobalPosition(req.log[j].h))
                 => i = j)
    /\ [][(req.chain_handlers # <<>> /\ req'.chain_handlers = req.chain_handlers)
             => req'.chain_index >= req.chain_index]_vars
    /\ [][RouteChainInstalled =>
             /\ req'.chain_handlers = req.chain_handlers
             /\ \A k \in (Len(req.log) + 1)..Len(req'.log) :
                   ~IsGlobalPosition(req'.log[k].h)]_vars

\* C33 witness: a global middleware has called Next twice; the route's
\* first middleware returned without calling Next, and the second call of
\* the global middleware went on in the route chain: the request is over
\* with five invocations, one per position.
C33_Witness ==
    /\ req.pc = "done"
    /\ RouteChainInstalled
    /\ Len(req.chain_handlers) = 3
    /\ \E i \in 1..Len(req.log) :
          /\ req.log[i].h \in GlobalArgs
          /\ req.log[i].calls = 2
    /\ \E i \in 1..Len(req.log) :
          /\ req.log[i].h = "m1"
          /\ req.log[i].calls = 0
    /\ \E i \in 1..Len(req.log) : req.log[i].h = "m2"

-----------------------------------------------------------------------------
\* ---------------------------------------------------------------------
\* Claim C34: at most one route per (method, pattern string)
\* ---------------------------------------------------------------------

\* Router.ListRoutes: one entry method+" "+path per exact key and per
\* element of the parameter sequence. The order of sync.Map.Range and of
\* a Go map is unspecified, so the list is given as the number of times
\* each entry occurs in it; an entry is the pair of its method and path.
ListRoutes(t) ==
    LET entries == UNION {{<<M, k>> : k \in DOMAIN t[M].exact}
                             \cup {<<M, t[M].params[i].Path>> : i \in 1..Len(t[M].params)}
                          : M \in DOMAIN t}
    IN [e \in entries |->
           Cardinality({k \in DOMAIN t[e[1]].exact : k = e[2]})
           + Cardinality({i \in 1..Len(t[e[1]].params) : t[e[1]].params[i].Path = e[2]})]

\* C34 as stated: the table never holds two routes with the same method
\* and the same pattern string; and after RemoveRoute(method, pattern)
\* ListRoutes has no entry for that method and pattern and MatchRoute
\* returns no route with that pattern for any request path.
C34_OneRoutePerPattern ==
    /\ \A M \in DOMAIN routes : \A p \in RoutePaths :
          Cardinality(RoutesAt(routes, M, p)) <= 1
    /\ last.op = "RemoveRoute" =>
          LET M == ToUpper(last.method)
          IN /\ <<M, last.path>> \notin DOMAIN ListRoutes(routes)
             /\ \A q \in RequestPaths :
                   LET lk == RouterMatchRoute(routes, M, q)
                   IN ~(lk.matched /\ lk.route.Path = last.path)

-----------------------------------------------------------------------------
\* ---------------------------------------------------------------------
\* Claim C35: Group.UpdateMiddlewares keeps handler and renderer
\* ---------------------------------------------------------------------

\* C35 as stated: after Group.UpdateMiddlewares, Group.AddMiddleware or
\* Group.RemoveMiddleware, the route that the table held at the effective
\* path of a child of the group is still there with the handler and the
\* renderer it had immediately before the call.
C35_UpdateMiddlewaresKeepsHandlerAndRenderer ==
    [][last'.op \in GroupMiddlewareOps =>
          \A i \in 1..Len(groups[last'.group].routes) :
              LET gr == groups[last'.group].routes[i]
              IN Locate(routes, gr.method, gr.effectivePath).found =>
                    /\ Locate(routes', gr.method, gr.effectivePath).found
                    /\ Located(routes', gr.method, gr.effectivePath).Handler
                          = Located(routes, gr.method, gr.effectivePath).Handler
                    /\ Located(routes', gr.method, gr.effectivePath).Renderer
                          = Located(routes, gr.method, gr.effectivePath).Renderer]_vars

-----------------------------------------------------------------------------
\* ---------------------------------------------------------------------
\* Claim C36: RenameRoute touches no route but the renamed one
\* ---------------------------------------------------------------------

\* The number of routes table t holds.
RouteCount(t) ==
    Cardinality(UNION {{<<M, "exact", k>> : k \in DOMAIN t[M].exact}
                           \cup {<<M, "params", i>> : i \in 1..Len(t[M].params)}
                       : M \in DOMAIN t})

\* C36 as stated: after RenameRoute(method, oldPath, newPath) every route
\* that was in the table under another method or under a path different
\* from oldPath, one at newPath included, is in the table under its path
\* with the same handler, and the table holds as many routes as before.
C36_RenameRouteKeepsOtherRoutes ==
    [][last'.op = "RenameRoute" =>
          /\ \A r \in AllRoutes(routes) :
                (r.Method # ToUpper(last'.method) \/ r.Path # last'.path) =>
                    \E r2 \in AllRoutes(routes') :
                        /\ r2.Method = r.Method
                        /\ r2.Path = r.Path
                        /\ r2.Handler = r.Handler
          /\ RouteCount(routes') = RouteCount(routes)]_vars

-----------------------------------------------------------------------------
(* Group calls on a router that also holds a parameterized route which was
   registered with Router.AddRoute and belongs to no group. *)

\* The pattern of the route outside the groups: '/a/:y'.
SharedPattern == PrefixA \o PatY

\* router.AddRoute("get", "/a/:y", h4)
DirectAddRoute ==
    /\ nops < MaxGroupOps
    /\ ~Locate(routes, "get", SharedPattern).found
    /\ nops' = nops + 1
    /\ routes' = AddRoute(routes, "get", SharedPattern, "h4", <<>>)
    /\ last' = [NoGroupCall EXCEPT !.op = "AddRoute", !.method = "get",
                                   !.path = SharedPattern, !.handler = "h4"]
    /\ UNCHANGED <<match, GlobalMiddlewares, req, groups, staticRoutes, NotFoundHandler,
                   heap, threads>>

\* g.AddRoute("post", "/a", h5): a child with the relative path of a GET
\* child, under another method.
DoGroupAddRoutePost ==
    \E gi \in 1..Len(groups) :
        /\ nops < MaxGroupOps
        /\ GroupCall("Group.AddRoute", gi, RelA, <<>>, <<>>, TRUE,
                     GroupAddRoute(routes, groups[gi], "post", RelA, "h5", <<>>))

GroupSharedNext ==
    \/ DirectAddRoute
    \/ DoGroupGroup
    \/ DoGroupAddRoute
    \/ DoGroupAddRoutePost
    \/ DoGroupChangePrefix
    \/ DoGroupUpdateMiddlewares
    \/ DoGroupAddMiddleware
    \/ DoGroupRemoveMiddleware
    \/ DoGroupRemoveRoute

SpecGroupShared == GroupInit /\ [][GroupSharedNext]_vars

\* ---------------------------------------------------------------------
\* Claim C37: group rewrites leave the resolution of other paths alone
\* ---------------------------------------------------------------------

\* The request paths looked at: one, two and three segments under each
\* prefix.
SharedRequestPaths ==
    {p \o r : p \in GroupPrefixes, r \in {RelA, RelAA, <<"/", "b">>}}

\* The route belongs to no child of g, or to a child of g (the i-th) whose
\* effective path is the same in g2, the group after the call.
NotRenamedIn(g, g2, route) ==
    \/ \A i \in 1..Len(g.routes) :
          ~(g.routes[i].method = route.Method /\ g.routes[i].effectivePath = route.Path)
    \/ \E i \in 1..Len(g.routes) :
          /\ g.routes[i].method = route.Method
          /\ g.routes[i].effectivePath = route.Path
          /\ g2.routes[i].effectivePath = route.Path

\* C37 as stated: after Group.UpdateMiddlewares (also through
\* Group.AddMiddleware and Group.RemoveMiddleware) and Group.ChangePrefix,
\* every request path outside the old and the new prefix of a prefix
\* change that resolved before the call to a route of no child of the
\* group, or of a child whose effective path the call did not change,
\* resolves after the call to a route with the same pattern.
C37_OtherPathsResolveAsBefore ==
    [][last'.op \in GroupMiddlewareOps \cup {"Group.ChangePrefix"} =>
          \A q \in SharedRequestPaths :
              LET lk == RouterMatchRoute(routes, "GET", q)
                  renamed == last'.op = "Group.ChangePrefix"
              IN (/\ lk.matched
                  /\ NotRenamedIn(groups[last'.group], groups'[last'.group], lk.route)
                  /\ renamed => (/\ ~IsPrefixSeq(last'.path, q)
                                 /\ ~IsPrefixSeq(last'.newPath, q)))
                 => /\ RouterMatchRoute(routes', "GET", q).matched
                    /\ RouterMatchRoute(routes', "GET", q).route.Path = lk.route.Path]_vars

-----------------------------------------------------------------------------
\* ---------------------------------------------------------------------
\* Claim C38: Group.RemoveRoute removes every child with the relative path
\* ---------------------------------------------------------------------

\* The children of g, in order, whose relative path is not relPath.
ChildrenBut(g, relPath) == SelectSeq(g.routes, LAMBDA gr : gr.relPath # relPath)

\* C38 as stated: after Group.RemoveRoute(relPath) the group's list holds
\* no child with that relative path and the table holds the route of no
\* such child, whatever the child's method; the children with other
\* relative paths are in the list as before and the table holds for them
\* what it held.
C38_RemoveRouteRemovesAllMethods ==
    [][last'.op = "Group.RemoveRoute" =>
          LET g == groups[last'.group]
              g2 == groups'[last'.group]
          IN /\ \A i \in 1..Len(g2.routes) : g2.routes[i].relPath # last'.path
             /\ \A i \in 1..Len(g.routes) :
                   g.routes[i].relPath = last'.path => ~Registered(routes', g.routes[i])
             /\ ChildrenBut(g2, last'.path) = ChildrenBut(g, last'.path)
             /\ \A i \in 1..Len(g.routes) :
                   (/\ g.routes[i].relPath # last'.path
                    /\ Registered(routes, g.routes[i]))
                      => /\ Registered(routes', g.routes[i])
                         /\ Located(routes', g.routes[i].method, g.routes[i].effectivePath)
                               = Located(routes, g.routes[i].method,
                                         g.routes[i].effectivePath)]_vars

-----------------------------------------------------------------------------
(* Router calls made from inside dispatch.  A request runs the global
   middlewares, then nextFunc, whose lookup is Router.MatchRoute, then the
   matched route's chain and handler.  A global middleware (the schema
   validation middleware calls dr.MatchRoute) and a route handler (the
   reload handler calls ClearRoutes and AddRoute) call the router on the
   goroutine of the request; other requests run beside it. *)

\* Router calls one request makes from its middlewares and handlers.
MaxHandlerCalls == 2

\* Requests served at a time.
MaxServing == 2

\* UpdateRoute, RenameRoute and RemoveRoute have one shape: Load, and if
\* the partition exists, Lock, the change, and the deferred Unlock.
MutationOps == {"UpdateRoute", "RenameRoute", "RemoveRoute"}

HandlerCalls ==
    {[op |-> "AddRoute", path |-> PathA, to |-> <<>>],
     [op |-> "MatchRoute", path |-> PathA, to |-> <<>>],
     [op |-> "ClearRoutes", path |-> <<>>, to |-> <<>>],
     [op |-> "UpdateRoute", path |-> PathA, to |-> <<>>],
     [op |-> "RenameRoute", path |-> PathA, to |-> PathB],
     [op |-> "RemoveRoute", path |-> PathA, to |-> <<>>]}

\* dispatch: globalChain := dr.GetGlobalMiddlewareChain(); ...; return Next(c)
\* runs the first global middleware
ServeRequest ==
    \E t \in 1..MaxServing :
        /\ ~heap.fault
        /\ threads[t].pc = "idle"
        /\ threads' = [threads EXCEPT ![t] =
                          [ThreadIdle EXCEPT !.op = "dispatch", !.pc = "chain",
                                             !.method = "GET", !.path = PathA,
                                             !.reqPath = PathA]]
        /\ UNCHANGED <<match, routes, last, nops, GlobalMiddlewares, req, groups,
                       staticRoutes, NotFoundHandler, heap>>

\* The last global middleware calls Next: nextFunc starts its lookup
\* route, matched, params := dr.MatchRoute(method, path)
ChainNext ==
    \E t \in Threads :
        /\ ~heap.fault
        /\ threads[t].op = "dispatch"
        /\ threads[t].pc = "chain"
        /\ threads' = [threads EXCEPT ![t].pc = "load"]
        /\ UNCHANGED <<match, routes, last, nops, GlobalMiddlewares, req, groups,
                       staticRoutes, NotFoundHandler, heap>>

\* A middleware or the handler of the request calls the router.
HandlerCall ==
    \E t \in Threads, call \in HandlerCalls :
        /\ ~heap.fault
        /\ threads[t].op = "dispatch"
        /\ threads[t].pc \in {"chain", "serve"}
        /\ threads[t].calls < MaxHandlerCalls
        /\ threads' = [threads EXCEPT
                          ![t].op = call.op,
                          ![t].pc = IF call.op = "ClearRoutes" THEN "clear" ELSE "load",
                          ![t].method = ToUpper("GET"),
                          ![t].path = call.path,
                          ![t].args = call.to,
                          ![t].mr = 0,
                          ![t].fresh = "GET" \notin DOMAIN heap.routes,
                          ![t].frame = threads[t].pc,
                          ![t].calls = @ + 1]
        /\ UNCHANGED <<match, routes, last, nops, GlobalMiddlewares, req, groups,
                       staticRoutes, NotFoundHandler, heap>>

\* The router call returns to the middleware or handler that made it.
HandlerCallReturns ==
    \E t \in Threads :
        /\ ~heap.fault
        /\ threads[t].frame # "none"
        /\ threads[t].pc = "done"
        /\ threads' = [threads EXCEPT
                          ![t].op = "dispatch",
                          ![t].pc = threads[t].frame,
                          ![t].frame = "none",
                          ![t].method = "GET",
                          ![t].path = threads[t].reqPath,
                          ![t].local = <<threads[t].op>>]
        /\ UNCHANGED <<match, routes, last, nops, GlobalMiddlewares, req, groups,
                       staticRoutes, NotFoundHandler, heap>>

\* UpdateRoute, RenameRoute, RemoveRoute:
\* if v, ok := dr.routes.Load(method); ok { mr := v.(*methodRoutes) ... }
MutateLoad ==
    \E t \in Threads :
        /\ ~heap.fault
        /\ threads[t].op \in MutationOps
        /\ threads[t].pc = "load"
        /\ threads' = IF threads[t].method \in DOMAIN heap.routes
                      THEN [threads EXCEPT ![t].mr = heap.routes[threads[t].method],
                                           ![t].pc = "lock"]
                      ELSE [threads EXCEPT ![t].pc = "done"]
        /\ UNCHANGED <<match, routes, last, nops, GlobalMiddlewares, req, groups,
                       staticRoutes, NotFoundHandler, heap>>

\* UpdateRoute, RenameRoute, RemoveRoute: mr.mu.Lock()
MutateLock ==
    \E t \in Threads :
        /\ ~heap.fault
        /\ threads[t].op \in MutationOps
        /\ threads[t].pc = "lock"
        /\ heap.objects[threads[t].mr].writer = 0
        /\ heap.objects[threads[t].mr].readers = {}
        /\ heap' = [heap EXCEPT !.objects[threads[t].mr].writer = t]
        /\ threads' = [threads EXCEPT ![t].pc = "apply"]
        /\ UNCHANGED <<match, routes, last, nops, GlobalMiddlewares, req, groups,
                       staticRoutes, NotFoundHandler>>

\* UpdateRoute, RenameRoute, RemoveRoute: the change to mr.exact and
\* mr.params, and the deferred mr.mu.Unlock() at the return.
MutateApply ==
    \E t \in Threads :
        /\ ~heap.fault
        /\ threads[t].op \in MutationOps
        /\ threads[t].pc = "apply"
        /\ LET m == threads[t].method
               before == [k \in {m} |->
                             [exact |-> heap.objects[threads[t].mr].exact,
                              params |-> heap.objects[threads[t].mr].params]]
               after == CASE threads[t].op = "UpdateRoute" ->
                                 UpdateRoute(before, m, threads[t].path, "h3")
                          [] threads[t].op = "RenameRoute" ->
                                 RenameRoute(before, m, threads[t].path, threads[t].args)
                          [] threads[t].op = "RemoveRoute" ->
                                 RemoveRoute(before, m, threads[t].path)
           IN heap' = [heap EXCEPT !.objects[threads[t].mr] =
                          [@ EXCEPT !.exact = after[m].exact,
                                    !.params = after[m].params,
                                    !.writer = 0]]
        /\ threads' = [threads EXCEPT ![t].pc = "done"]
        /\ UNCHANGED <<match, routes, last, nops, GlobalMiddlewares, req, groups,
                       staticRoutes, NotFoundHandler>>

RouterCallsNext ==
    \/ ServeRequest
    \/ ChainNext
    \/ MatchRouteLoad
    \/ MatchRouteRLock
    \/ MatchRouteRead
    \/ DispatchStatic
    \/ HandlerCall
    \/ HandlerCallReturns
    \/ ServeReturns
    \/ AddRouteLoad
    \/ AddRouteStore
    \/ AddRouteLock
    \/ AddRouteFile
    \/ MutateLoad
    \/ MutateLock
    \/ MutateApply
    \/ ClearRoutesAssign
    \/ RoutesDataRace

SpecRouterCalls == ConcurrentDispatchInit /\ [][RouterCallsNext]_vars

\* ---------------------------------------------------------------------
\* Claim C39: router calls made from inside dispatch complete
\* ---------------------------------------------------------------------

\* The goroutine of caller t can take its next step.
CanStep(t) == ENABLED (RouterCallsNext /\ threads'[t] # threads[t])

\* Caller t runs a middleware or a handler of its request, or a router
\* call made by one.
InHandler(t) ==
    \/ threads[t].op = "dispatch" /\ threads[t].pc \in {"chain", "serve"}
    \/ threads[t].frame # "none"

PathASlash == <<"/", "a", "/">>

PathSlashA == <<"/", "/", "a">>

\* Request paths with and without a trailing or a repeated slash.
SlashedRequestPaths == RequestPaths \cup {PathASlash, PathSlashA}

\* C40: for every route registered under a literal pattern p (no ':' and
\* no '*') and every request path q of the same method,
\* Router.MatchRoute(method, q) finds that route exactly when
\* utils.MatchRoute(p, q) is true.
C40_LookupAgreesWithMatcher ==
    \A m \in DOMAIN routes :
        \A p \in DOMAIN routes[m].exact, q \in SlashedRequestPaths :
            IsLiteral(p) =>
                ((/\ RouterMatchRoute(routes, m, q).matched
                  /\ RouterMatchRoute(routes, m, q).route = routes[m].exact[p])
                 <=> MatchRoute(p, q).matched)

====
